---- MODULE Spec2Model ----
(***************************************************************************)
(* A model of io_export_qmap.py (Blender -> idTech .map exporter).         *)
(*                                                                         *)
(* Numbers.  The exporter computes in floating point.  The model computes  *)
(* in exact integer / rational arithmetic over inputs that floating point  *)
(* represents exactly (small integers), so that every comparison the code  *)
(* makes (grid rounding, singular matrix, zero-length vector, zero area)   *)
(* has the same outcome in the model as in the program.  Where the outcome *)
(* of a comparison depends on floating-point rounding, the model makes a   *)
(* nondeterministic choice over the possible outcomes.                     *)
(*                                                                         *)
(* A vector is a sequence of integers, <<x, y, z>> or <<x, y>>.            *)
(***************************************************************************)
EXTENDS Integers, Sequences, FiniteSets, TLC

VARIABLES
    opt,        \* the operator's option properties (self.option_grid, ...)
    vector,     \* gridsnap: the coordinate vector handed to gridsnap
    snapped,    \* gridsnap: the results of the successive applications
    face,       \* texdata: the face handed to texdata, with its object
    texresult,  \* texdata: <<>>, then <<what the call returned or raised>>
    obj,        \* the object being processed (process_patch, process_mesh)
    spline,     \* process_patch: the spline being processed
    bm,         \* process_mesh: the faces of the working mesh (bm.faces[:])
    cursor,     \* process_mesh: the index in bm of the next face of the loop
    bottom,     \* process_mesh: the cap height of the Soup strategy
    emitted,    \* the faces whose face lines were written, in order
    scene,      \* execute: the objects and collections of the Blender scene
    seen_names, \* ExportQuakeMap.seen_names, the list of the class
    item,       \* execute: the index of the next step of the run
    runs,       \* the number of execute calls started
    output,     \* the scene_str of every execute call that finished
    platform,   \* sys.platform
    clipboard,  \* the text clipboard and the RadiantClippings clipboard data
    map_text,   \* execute: the list fw appends to
    reports,    \* what self.report was called with, in order
    raised,     \* "" or the exception that ended the call
    pc          \* where the call or the run stands

snapVars == <<vector, snapped>>
texVars == <<face, texresult>>
patchVars == <<spline>>
meshVars == <<bm, cursor, bottom, emitted>>
outVars == <<map_text, reports, raised>>
runVars == <<scene, seen_names, item, runs, output, platform, clipboard>>
vars == <<opt, snapVars, texVars, obj, patchVars, meshVars, outVars, runVars, pc>>

\* The parts of the state a specification does not use stay at these values.
IdleSnap == vector = <<>> /\ snapped = <<>>
IdleTex == face = [verts |-> <<>>] /\ texresult = <<>>
IdlePatch == spline = [point_count_u |-> 0]
IdleObj == obj = [name |-> <<>>]
IdleOut == map_text = <<>> /\ reports = <<>> /\ raised = ""
IdleMesh == bm = <<>> /\ cursor = 0 /\ bottom = 0 /\ emitted = <<>>
IdleExec == /\ scene = [objects |-> <<>>] /\ seen_names = <<>> /\ item = 0
            /\ runs = 0 /\ output = <<>>
            /\ platform = <<"l", "i", "n", "u", "x">> /\ clipboard = [text |-> <<>>, radiant |-> <<>>]
IdleRun == IdleObj /\ IdlePatch /\ IdleMesh /\ IdleOut /\ IdleExec /\ pc = "idle"

(***************************************************************************)
(* Arithmetic helpers                                                      *)
(***************************************************************************)
Abs(x) == IF x < 0 THEN -x ELSE x
Sign(x) == IF x > 0 THEN 1 ELSE IF x < 0 THEN -1 ELSE 0

\* int(n/d): truncation toward zero (not what gridsnap does).
RoundTowardZero(n, d) == IF n >= 0 THEN n \div d ELSE -((-n) \div d)

\* Python's round(n/d) for d > 0: to the nearest integer, ties to even.
round(n, d) ==
    LET q == n \div d
        r == n % d
    IN  IF 2 * r < d THEN q
        ELSE IF 2 * r > d THEN q + 1
        ELSE IF q % 2 = 0 THEN q ELSE q + 1

(***************************************************************************)
(* Options: the option_ properties of ExportQuakeMap, defaults of ptxt.     *)
(***************************************************************************)
DefaultOptions ==
    [option_grid   |-> 1,       \* FloatProperty, min=0
     option_depth  |-> 2,
     option_scale  |-> 1,
     option_fp     |-> 5,
     option_tm     |-> TRUE,
     option_geo    |-> "Faces",
     option_nurbs  |-> "Mesh",
     option_lights |-> "Auto",
     option_empties |-> "Point",
     option_dest   |-> "File",
     option_brush  |-> "Quake",
     option_uv     |-> "Valve",
     option_group  |-> "Gen",
     option_flags  |-> "None",
     option_gname  |-> <<"func_group">>,    \* names: sequences of characters
     option_skip   |-> <<"skip">>,          \* or of longer pieces of text
     option_size   |-> 64]

(***************************************************************************)
(* gridsnap (Numeric Formatter)                                            *)
(***************************************************************************)
gridsnap_truncating(o, v) ==
    LET grid == o.option_grid
    IN  IF grid # 0
        THEN [i \in DOMAIN v |-> RoundTowardZero(v[i], grid) * grid]
        ELSE v

gridsnap(o, v) ==
    LET grid == o.option_grid
    IN  IF grid # 0
        THEN [i \in DOMAIN v |-> round(v[i], grid) * grid]
        ELSE v

(***************************************************************************)
(* Vectors                                                                 *)
(***************************************************************************)
Sub(a, b) == [i \in DOMAIN a |-> a[i] - b[i]]
Add(a, b) == [i \in DOMAIN a |-> a[i] + b[i]]
Scale(k, a) == [i \in DOMAIN a |-> k * a[i]]
Dot(a, b) == IF Len(a) = 2 THEN a[1] * b[1] + a[2] * b[2]
             ELSE a[1] * b[1] + a[2] * b[2] + a[3] * b[3]
Cross(a, b) == <<a[2] * b[3] - a[3] * b[2],
                 a[3] * b[1] - a[1] * b[3],
                 a[1] * b[2] - a[2] * b[1]>>
IsZero(a) == \A i \in DOMAIN a : a[i] = 0
\* v[:axis] + v[(axis+1):] with the model's axes 1, 2, 3 for x, y, z
DropAxis(v, axis) == CASE axis = 1 -> <<v[2], v[3]>>
                       [] axis = 2 -> <<v[1], v[3]>>
                       [] axis = 3 -> <<v[1], v[2]>>

(***************************************************************************)
(* texdata (Texture Projection Solver)                                     *)
(*                                                                         *)
(* A face is [verts, normal, uv, material_index]: verts the loop vertex    *)
(* coordinates, uv the loop UVs (integer pairs), normal an integer vector  *)
(* along the face normal (the unit normal when it is along an axis, the    *)
(* zero vector for a zero-area face).  The model's faces are planar.       *)
(*                                                                         *)
(* texdata returns the SET of its possible outcomes, each a record         *)
(*   [kind, raised, texstring, fmt, nums]                                  *)
(* kind "error":  the call raised `raised`;                                *)
(* kind "dummy":  the linear solve raised and the format's default was     *)
(*                returned;                                                *)
(* kind "solved": the solve succeeded on a regular system; nums holds the  *)
(*                solution as exact rationals (layout per format below);   *)
(* kind "illcond": the system is singular in exact arithmetic but rounding *)
(*                made LAPACK's pivot non-zero, so no exception was raised *)
(*                and a basis with unspecified huge values was returned.   *)
(* numpy.linalg.solve raises only on an exactly zero pivot, so on a        *)
(* singular system both "dummy" and "illcond" are possible outcomes.       *)
(***************************************************************************)
\* mat.name.replace(" ", "_"); names are sequences of characters
replace_spaces(name) == [i \in DOMAIN name |-> IF name[i] = " " THEN "_" ELSE name[i]]

\* lines 410-425: the material name and the texel size
material_of(ob, f) ==
    IF ob.material_slots # <<>> THEN ob.material_slots[f.material_index + 1]
    ELSE [name |-> <<>>, has_image |-> FALSE, size |-> <<0, 0>>]

texsize(o, ob, f) ==
    LET mat == material_of(ob, f)
    IN  IF mat.name # <<>> /\ mat.has_image THEN mat.size
        ELSE <<o.option_size, o.option_size>>

texname(o, ob, f) ==
    LET mat == material_of(ob, f)
        n == IF mat.name # <<>> THEN replace_spaces(mat.name) ELSE o.option_skip
    IN  IF o.option_brush = "Doom3" THEN <<"\"">> \o n \o <<"\"">> ELSE n

\* the solution read column by column instead of row by row
solve4_transposed(a, b, p, q) ==
    [det |-> a[1] * b[2] - a[2] * b[1],
     m   |-> <<p[1] * b[2] - a[2] * q[1],  p[2] * b[2] - a[2] * q[2],
               a[1] * q[1] - b[1] * p[1],  a[1] * q[2] - b[1] * p[2]>>]

\* numpy.linalg.solve on the 4x4 matrix of lines 486-489 / 554-557, which is
\* two copies of the 2x2 system with rows a and b: numerators of
\* (m11, m12, m21, m22) over the determinant a.x*b.y - a.y*b.x (Cramer).
solve4(a, b, p, q) ==
    [det |-> a[1] * b[2] - a[2] * b[1],
     m   |-> <<p[1] * b[2] - a[2] * q[1],  a[1] * q[1] - b[1] * p[1],
               p[2] * b[2] - a[2] * q[2],  a[1] * q[2] - b[1] * p[2]>>]

TexOut(o, ob, f, kind, exc, nums) ==
    [kind |-> kind, raised |-> exc, texstring |-> texname(o, ob, f),
     fmt |-> o.option_uv, nums |-> nums]

\* lines 433-525.  nums = <<Gu1, Gu2, Gu3, Gv1, Gv2, Gv3, den, t0u, t0v,
\* v0x, v0y, v0z>>: Gu/den and Gv/den are the texture axes rt/scale.x and
\* up/scale.y (the 3D gradients of u and v in texels), t0u, t0v the texel
\* coordinates of T[0], v0 is V[0].
\* With L2 = |world01|^2, d = world01.world02, cr = world01 x world02 and
\* C2 = |cr|^2 the 2D frame is a = (L, 0), b = (d, +-C)/L, the solve gives
\* right_2dworld = (p.x/L, (L2*q.x - p.x*d)/(+-L*C)), and rotating world01/L
\* about the normal by its angle gives
\*   Gu = (p.x*C2*world01 + (L2*q.x - p.x*d)*(cr x world01)) / (L2*C2).
texdata_Valve(o, ob, f) ==
    LET V == f.verts
        T == f.uv
        wh == texsize(o, ob, f)
        width == wh[1]
        height == -wh[2]                       \* v is flipped
        world01 == Sub(V[2], V[1])
        world02 == Sub(V[3], V[1])
        L2 == Dot(world01, world01)
        d == Dot(world01, world02)
        cr == Cross(world01, world02)
        C2 == Dot(cr, cr)
        tex01 == <<(T[2][1] - T[1][1]) * width, (T[2][2] - T[1][2]) * height>>
        tex02 == <<(T[3][1] - T[1][1]) * width, (T[3][2] - T[1][2]) * height>>
        perp == Cross(cr, world01)
        Gu == Add(Scale(tex01[1] * C2, world01),
                  Scale(L2 * tex02[1] - tex01[1] * d, perp))
        Gv == Add(Scale(tex01[2] * C2, world01),
                  Scale(L2 * tex02[2] - tex01[2] * d, perp))
    IN  IF IsZero(world01) \/ IsZero(world02)
        THEN \* world01.angle(world02): zero length vectors have no valid angle
             {TexOut(o, ob, f, "error", "ValueError", <<>>)}
        ELSE IF C2 = 0
        THEN {TexOut(o, ob, f, "dummy", "", <<>>),
              TexOut(o, ob, f, "illcond", "", <<>>)}
        ELSE {TexOut(o, ob, f, "solved", "",
                     Gu \o Gv \o <<L2 * C2, T[1][1] * width, T[1][2] * height>>
                        \o V[1])}

\* lines 535-540: the axis of the largest component of the normal, the
\* first of z, x, y among equals.  (The code compares the components rounded
\* to option_fp decimals; the model's normals are integer vectors whose
\* unequal components differ by more than that rounding.)
closest_axis(n) ==
    LET maxn == CHOOSE mx \in {Abs(n[i]) : i \in 1..3} :
                    \A i \in 1..3 : Abs(n[i]) <= mx
    IN  IF Abs(n[3]) = maxn THEN 3 ELSE IF Abs(n[1]) = maxn THEN 1 ELSE 2

\* lines 527-580.  nums = <<m11, m12, m21, m22, det, t0u, t0v, v0x, v0y>>:
\* tformMtx = m/det, t0 and the projected V[0] of lines 572-573.
texdata_Quake(o, ob, f) ==
    LET V == f.verts
        T == f.uv
        wh == texsize(o, ob, f)
        width == wh[1]
        height == wh[2]
        axis == closest_axis(f.normal)
        world01_2d == DropAxis(Sub(V[2], V[1]), axis)
        world02_2d == DropAxis(Sub(V[3], V[1]), axis)
        tex01 == <<(T[2][1] - T[1][1]) * width, (T[2][2] - T[1][2]) * height>>
        tex02 == <<(T[3][1] - T[1][1]) * width, (T[3][2] - T[1][2]) * height>>
        s == solve4(world01_2d, world02_2d, tex01, tex02)
    IN  IF s.det = 0
        THEN {TexOut(o, ob, f, "dummy", "", <<>>),
              TexOut(o, ob, f, "illcond", "", <<>>)}
        ELSE {TexOut(o, ob, f, "solved", "",
                     s.m \o <<s.det, T[1][1] * width, T[1][2] * height>>
                         \o DropAxis(V[1], axis))}

AxisAligned(n) == Cardinality({i \in 1..3 : n[i] # 0}) <= 1

\* lines 616-631 for an axis-aligned unit normal or the zero normal:
\* B @ vert, rows 1 and 2
BPrim_B(n, v) ==
    LET cz == IF n[1] # 0 THEN n[1] ELSE IF n[2] # 0 THEN 0 ELSE 1
        sz == IF n[1] # 0 THEN 0 ELSE n[2]
        sy == n[3]
        cy == IF IsZero(n) THEN 1 ELSE 1 - Abs(n[3])
    IN  <<cz * v[2] - sz * v[1],
          sy * cz * v[1] + sy * sz * v[2] - cy * v[3]>>

\* lines 582-648.  nums = <<a1, a2, a3, a4, a5, a6, det>>: A6 = a/det.
\* vsign is -1: v is flipped (line 634).
\* For a normal that is not along an axis B is irrational: the rows of B
\* span the plane orthogonal to the normal, so M6 is singular exactly when
\* the edges at V[0] have no cross product component along the normal; the
\* solved values are then not represented (nums = <<>>).
BPrim_solve(o, ob, f, vsign) ==
    LET V == f.verts
        T == f.uv
        n == [i \in 1..3 |-> Sign(f.normal[i])]
        VB == [i \in 1..3 |-> BPrim_B(n, V[i])]
        x21 == VB[2][1] - VB[1][1]
        y21 == VB[2][2] - VB[1][2]
        x31 == VB[3][1] - VB[1][1]
        y31 == VB[3][2] - VB[1][2]
        det == IF AxisAligned(f.normal) THEN x21 * y31 - x31 * y21
               ELSE Dot(Cross(Sub(V[2], V[1]), Sub(V[3], V[1])), f.normal)
        \* T6
        u == [i \in 1..3 |-> T[i][1]]
        w == [i \in 1..3 |-> vsign * T[i][2]]
        a1 == (u[2] - u[1]) * y31 - (u[3] - u[1]) * y21
        a2 == x21 * (u[3] - u[1]) - x31 * (u[2] - u[1])
        a4 == (w[2] - w[1]) * y31 - (w[3] - w[1]) * y21
        a5 == x21 * (w[3] - w[1]) - x31 * (w[2] - w[1])
    IN  IF det = 0
        THEN {TexOut(o, ob, f, "dummy", "", <<>>),
              TexOut(o, ob, f, "illcond", "", <<>>)}
        ELSE IF ~AxisAligned(f.normal)
        THEN {TexOut(o, ob, f, "solved", "", <<>>)}
        ELSE {TexOut(o, ob, f, "solved", "",
                     <<a1, a2, u[1] * det - a1 * VB[1][1] - a2 * VB[1][2],
                       a4, a5, w[1] * det - a4 * VB[1][1] - a5 * VB[1][2],
                       det>>)}

\* the BPrim branch with T6 built without flipping v
texdata_BPrim_unflipped(o, ob, f) == BPrim_solve(o, ob, f, 1)

texdata_BPrim(o, ob, f) == BPrim_solve(o, ob, f, -1)

texdata(o, ob, f) ==
    CASE o.option_uv = "Valve" -> texdata_Valve(o, ob, f)
      [] o.option_uv = "Quake" -> texdata_Quake(o, ob, f)
      [] o.option_uv = "BPrim" -> texdata_BPrim(o, ob, f)

(***************************************************************************)
(* Specification SpecSnap: gridsnap applied, and applied again, to a       *)
(* coordinate vector.                                                      *)
(***************************************************************************)
MaxGrid == 3
MaxCoord == 4
MaxApplications == 2

SnapCoords == (-MaxCoord)..MaxCoord
SnapVectors == [1..3 -> SnapCoords] \cup [1..2 -> {-MaxCoord, -1, 0, 3}]

InitSnap ==
    /\ opt \in {[DefaultOptions EXCEPT !.option_grid = g] : g \in 0..MaxGrid}
    /\ vector \in SnapVectors
    /\ snapped = <<>>
    /\ IdleTex /\ IdleRun

\* self.gridsnap(x), then self.gridsnap of the last result
ApplyGridsnap ==
    /\ Len(snapped) < MaxApplications
    /\ snapped' = Append(snapped,
                    gridsnap(opt, IF snapped = <<>> THEN vector
                                  ELSE snapped[Len(snapped)]))
    /\ UNCHANGED <<opt, vector, texVars, obj, patchVars, meshVars, outVars,
                   runVars, pc>>

NextSnap == ApplyGridsnap

SpecSnap == InitSnap /\ [][NextSnap]_vars

\* C9: gridsnap is idempotent; for grid > 0 every result component is a
\* multiple of grid at distance at most grid/2 from the input component; and
\* with grid = 0 gridsnap returns its argument.
C9_GridsnapIdempotent ==
    LET g == opt.option_grid IN
    /\ Len(snapped) >= 1 =>
          /\ DOMAIN snapped[1] = DOMAIN vector
          /\ g = 0 => snapped[1] = vector
          /\ g > 0 => \A i \in DOMAIN vector :
                         /\ snapped[1][i] % g = 0
                         /\ 2 * Abs(snapped[1][i] - vector[i]) <= g
    /\ Len(snapped) >= 2 => snapped[2] = snapped[1]

C9_Witness ==
    /\ Len(snapped) = 2
    /\ opt.option_grid > 1
    /\ \E i \in DOMAIN vector : snapped[1][i] # vector[i]

(***************************************************************************)
(* What texdata prints, read off a result, where it is rational.           *)
(***************************************************************************)
ScaleFloorInv == 100000          \* 1 / 0.00001, lines 499-500
SafeInvScale == 100000000        \* 1 / 1e-8: inverted_safe() of a zero matrix
BPrimDummyInv == 128             \* 1 / 0.0078125, line 584

\* Valve, lines 499-500: scale k (1 for x, 2 for y) is at the 1e-5 floor.
\* |right_2dworld| = |G|/den; within the model's bounds den <= ScaleFloorInv.
Valve_scale_floored(r, k) ==
    LET G == SubSeq(r.nums, 3 * k - 2, 3 * k)
        den == r.nums[7]
    IN  \/ Dot(G, G) = 0
        \/ /\ den > ScaleFloorInv
           /\ Dot(G, G) * ScaleFloorInv * ScaleFloorInv < den * den

\* Valve scale k as [root, num, den]: num/den, or its square root when root
Valve_scale(r, k) ==
    LET G == SubSeq(r.nums, 3 * k - 2, 3 * k)
        den == r.nums[7]
    IN  IF Valve_scale_floored(r, k)
        THEN [root |-> FALSE, num |-> ScaleFloorInv, den |-> 1]
        ELSE [root |-> TRUE, num |-> den * den, den |-> Dot(G, G)]

\* Standard, lines 564-569: tformMtx is the zero matrix, so inverted_safe()
\* inverts 1e-8 * identity: rotation 0 and scale SafeInvScale on both axes
Quake_tform_zero(r) == SubSeq(r.nums, 1, 4) = <<0, 0, 0, 0>>

\* Standard, lines 564-566, for a regular tformMtx m/det.  With
\* D = m11*m22 - m12*m21 the inverse is (det/D) * [a0 a1], columns
\* a0 = (m22, -m21) and a1 = (-m12, m11); rotation is the angle of its first
\* column and scale the lengths of its columns, with signs: (1, 1) when the
\* determinant is positive.  When it is negative to_scale() returns the
\* lengths either all positive or all negative, depending on the mathutils
\* build, and line 566 negates scale.x: the pairs of signs it can leave.
Quake_scale_signs(r) ==
    LET D == r.nums[1] * r.nums[4] - r.nums[2] * r.nums[3]
    IN  IF D > 0 THEN {<<1, 1>>} ELSE {<<-1, 1>>, <<1, -1>>}

\* a Standard basis on the projected vector w (relative to the projected
\* V[0]), lines 570-574: v0.rotate(-rotation), then v0 / scale, give
\*   u = sgn[1] * D * (a0 . w) / (det * |a0|^2)
\*   v = sgn[2] * sign(det/D) * (a0perp . w) * |D| / (|det| * |a0| * |a1|)
\* Whether (u, v) is the texel vector tex, compared without the roots.
Quake_maps(r, sgn, w, tex) ==
    LET m == SubSeq(r.nums, 1, 4)
        det == r.nums[5]
        D == m[1] * m[4] - m[2] * m[3]
        a0 == <<m[4], -m[3]>>
        a0perp == <<m[3], m[4]>>
        a1 == <<-m[2], m[1]>>
        dot2(a, b) == a[1] * b[1] + a[2] * b[2]
        lhs == sgn[2] * Sign(det) * Sign(D) * dot2(a0perp, w)
    IN  /\ sgn[1] * D * dot2(a0, w) = tex[1] * det * dot2(a0, a0)
        /\ Sign(lhs) = Sign(tex[2])
        /\ dot2(a0perp, w) * dot2(a0perp, w) * D * D
              = tex[2] * tex[2] * det * det * dot2(a0, a0) * dot2(a1, a1)

\* a Valve basis on the vector w (relative to V[0]), lines 510-525: the
\* axes are G / |G| and the scales |G| / den unless at the floor, so the
\* texel vector is (Gu . w, Gv . w) / den.  Whether it is tex.
Valve_maps(r, w, tex) ==
    /\ ~Valve_scale_floored(r, 1) /\ ~Valve_scale_floored(r, 2)
    /\ Dot(SubSeq(r.nums, 1, 3), w) = tex[1] * r.nums[7]
    /\ Dot(SubSeq(r.nums, 4, 6), w) = tex[2] * r.nums[7]

\* a BPrim basis on the vertex vb = B @ v, lines 582-610: whether
\* (a1*x + a2*y + a3, a4*x + a5*y + a6) / det is the UV vector t, v flipped
BPrim_maps(r, vb, t) ==
    /\ r.nums[1] * vb[1] + r.nums[2] * vb[2] + r.nums[3] = t[1] * r.nums[7]
    /\ r.nums[4] * vb[1] + r.nums[5] * vb[2] + r.nums[6] = -t[2] * r.nums[7]

\* The returned string is the format's dummy string: it is the dummy itself,
\* or a solved basis whose exact values are those of the dummy (no rounding
\* of printvec is taken into account: values that differ may print alike).
IsDefaultString(r) ==
    \/ r.kind = "dummy"
    \/ /\ r.kind = "solved"
       /\ LET n == r.nums IN
          CASE r.fmt = "Valve" ->
                 \* [ 1 0 0 0 ] [ 0 -1 0 0 ] 0 1 1
                 /\ SubSeq(n, 1, 3) = <<n[7], 0, 0>>
                 /\ SubSeq(n, 4, 6) = <<0, -n[7], 0>>
                 /\ n[8] * n[7] = Dot(SubSeq(n, 10, 12), SubSeq(n, 1, 3))
                 /\ n[9] * n[7] = Dot(SubSeq(n, 10, 12), SubSeq(n, 4, 6))
            [] r.fmt = "Quake" ->
                 \* 0 0 0 1 1
                 /\ SubSeq(n, 1, 4) = <<n[5], 0, 0, n[5]>>
                 /\ SubSeq(n, 6, 7) = SubSeq(n, 8, 9)
            [] r.fmt = "BPrim" ->
                 \* ( ( 0.0078125 0 0 ) ( 0 0.0078125 0 ) )
                 /\ n # <<>>
                 /\ n[1] * BPrimDummyInv = n[7] /\ n[2] = 0 /\ n[3] = 0
                 /\ n[4] = 0 /\ n[5] * BPrimDummyInv = n[7] /\ n[6] = 0

(***************************************************************************)
(* Specification SpecTex: texdata called on one face.                      *)
(***************************************************************************)
MaxTexCoord == 2

Unit(k, sgn) == [i \in 1..3 |-> IF i = k THEN sgn ELSE 0]
\* the point of the plane with coordinate k equal to h
Embed(k, h, pt) == CASE k = 1 -> <<h, pt[1], pt[2]>>
                     [] k = 2 -> <<pt[1], h, pt[2]>>
                     [] k = 3 -> <<pt[1], pt[2], h>>

TexPoints == (0..MaxTexCoord) \X (0..MaxTexCoord)
TexUVs == { <<<<1, 2>>, <<1, 2>>, <<1, 2>>>>,       \* all identical
            <<<<0, 0>>, <<0, 0>>, <<0, 0>>>>,       \* all identical (dummy layer)
            <<<<0, 0>>, <<1, 0>>, <<0, 1>>>>,
            <<<<0, 1>>, <<2, 1>>, <<1, 1>>>> }      \* colinear UVs
TexObjects ==
    { [material_slots |-> <<>>],
      [material_slots |-> <<[name |-> <<"m", " ", "1">>, has_image |-> TRUE,
                             size |-> <<2, 1>>]>>] }

TexFaces ==
    { [verts |-> <<Embed(k, 1, <<v0, v0>>), Embed(k, 1, v1), Embed(k, 1, v2)>>,
       normal |-> n, uv |-> t, material_index |-> 0, obj |-> ob] :
         k \in 1..3, v0 \in {0, 1}, v1 \in TexPoints, v2 \in TexPoints,
         n \in {Unit(kk, s) : kk \in 1..3, s \in {-1, 0, 1}},
         t \in TexUVs, ob \in TexObjects }

\* a planar face: the normal is along the cross product of the edges at V[0]
\* (either way round: a reflex corner), any axis or zero when they are colinear
NormalFits(f) ==
    LET cr == Cross(Sub(f.verts[2], f.verts[1]), Sub(f.verts[3], f.verts[1]))
    IN  \/ IsZero(cr)
        \/ ~IsZero(f.normal) /\ IsZero(Cross(cr, f.normal))

InitTex ==
    /\ opt \in {[DefaultOptions EXCEPT !.option_uv = u, !.option_size = 16] :
                   u \in {"Valve", "Quake", "BPrim"}}
    /\ face \in {f \in TexFaces : NormalFits(f)}
    /\ texresult = <<>>
    /\ IdleSnap /\ IdleRun

\* self.texdata(face, bm, obj)
CallTexdata ==
    /\ texresult = <<>>
    /\ \E r \in texdata(opt, face.obj, face) : texresult' = <<r>>
    /\ UNCHANGED <<opt, face, snapVars, obj, patchVars, meshVars, outVars,
                   runVars, pc>>

NextTex == CallTexdata

SpecTex == InitTex /\ [][NextTex]_vars

SameUVs(f) == f.uv[1] = f.uv[2] /\ f.uv[2] = f.uv[3]
Colinear(f) == IsZero(Cross(Sub(f.verts[2], f.verts[1]), Sub(f.verts[3], f.verts[1])))

\* C1 as claimed: on a face with non-zero area whose three reference UVs are
\* identical, texdata raises nothing and returns the format's default string.
C1_DegenerateUVGivesDefault ==
    (texresult # <<>> /\ SameUVs(face) /\ ~Colinear(face)) =>
        (texresult[1].kind # "error" /\ IsDefaultString(texresult[1]))

\* C1 as amended: on a face whose reference triangle is not degenerate and
\* whose three reference UVs are identical, texdata raises nothing, the solve
\* succeeds with all-zero coefficients, and the returned string is the basis
\* computed from them, which is not the default: Valve has both scales at the
\* floor value 100000, Standard has a zero tformMtx (scale 1e8, rotation 0),
\* BPrim is ( ( 0 0 u ) ( 0 0 -v ) ).  The default is returned only when the
\* reference vertices are colinear (the solve raised).
C1_DegenerateUVGivesZeroBasis ==
    texresult # <<>> =>
        LET r == texresult[1]
            n == r.nums
        IN  /\ r.kind = "dummy" => Colinear(face)
            /\ (SameUVs(face) /\ ~Colinear(face)) =>
                  /\ r.kind = "solved"
                  /\ ~IsDefaultString(r)
                  /\ r.fmt = "Valve" =>
                        /\ SubSeq(n, 1, 6) = <<0, 0, 0, 0, 0, 0>>
                        /\ Valve_scale(r, 1) = [root |-> FALSE, num |-> ScaleFloorInv, den |-> 1]
                        /\ Valve_scale(r, 2) = [root |-> FALSE, num |-> ScaleFloorInv, den |-> 1]
                  /\ r.fmt = "Quake" => Quake_tform_zero(r)
                  /\ r.fmt = "BPrim" =>
                        n = <<0, 0, face.uv[1][1] * n[7],
                              0, 0, -face.uv[1][2] * n[7], n[7]>>

C1_Witness ==
    /\ texresult # <<>>
    /\ SameUVs(face) /\ ~Colinear(face)
    /\ face.uv[1] = <<1, 2>>
    /\ texresult[1].kind = "solved"
    /\ texresult[1].fmt = "BPrim"

(***************************************************************************)
(* Output.  fw appends strings to map_text; the model appends one token    *)
(* per fw call (or per line of it): [kind, name, nums], with kind the      *)
(* literal text of the call, name its string argument (a sequence of       *)
(* characters or words) and nums its numbers, as exact integers.           *)
(***************************************************************************)
Tok(kind, name, nums) == [kind |-> kind, name |-> name, nums |-> nums]

\* what a call did: the tokens written, the reports made, the exception
Outcome(text, reps, exc) == [text |-> text, reports |-> reps, raised |-> exc]

Report(level, text, name) == [level |-> level, text |-> text, name |-> name]

(***************************************************************************)
(* process_patch (Patch Sampler)                                           *)
(*                                                                         *)
(* A spline is [point_count_u, point_count_v, use_cyclic_u, use_cyclic_v,  *)
(* resolution_u, resolution_v, material_index, points], points the control *)
(* points <<x, y, z, w>> in row-major order.  matrix_world is modelled by  *)
(* its translation.                                                        *)
(***************************************************************************)
BoolInt(b) == IF b THEN 1 ELSE 0

\* obj.matrix_world @ Vector(xyz)
world_transform(ob, xyz) == Add(xyz, ob.matrix_world)

\* lines 752-760
patch_matname(o, ob, sp) ==
    LET mat == IF ob.material_slots # <<>>
               THEN ob.material_slots[sp.material_index + 1]
               ELSE [name |-> <<>>]
        n == IF mat.name # <<>> THEN replace_spaces(mat.name) ELSE o.option_skip
    IN  IF o.option_brush = "Doom3" THEN <<"\"">> \o n \o <<"\"">> ELSE n

\* lines 779-785: the control point of row i, column j (both from 0); the
\* texture coordinates (i*du, j*dv) are kept as i/(nu-1) and -j/(nv-1)
patch_point(o, ob, sp, i, j, nu, nv) ==
    LET wu == sp.point_count_u
        wv == sp.point_count_v
        index == (j % wv) * wu + (i % wu)
        xyz == SubSeq(sp.points[index + 1], 1, 3)
        xyz_w == world_transform(ob, xyz)
    IN  Tok("( xyz uv ) ", <<>>,
            gridsnap(o, Scale(o.option_scale, xyz_w)) \o <<i, nu - 1, -j, nv - 1>>
              \o <<index>>)

\* lines 776-786: row i
patch_row(o, ob, sp, i, nu, nv) ==
    <<Tok("( ", <<>>, <<>>)>>
    \o [jj \in 1..nv |-> patch_point(o, ob, sp, i, nv - jj, nu, nv)]
    \o <<Tok(")\n", <<>>, <<>>)>>

RECURSIVE patch_rows(_, _, _, _, _, _)
patch_rows(o, ob, sp, i, nu, nv) ==
    IF i >= nu THEN <<>>
    ELSE patch_row(o, ob, sp, i, nu, nv) \o patch_rows(o, ob, sp, i + 1, nu, nv)

\* lines 770-775
patch_header(o, ob, sp, nu, nv) ==
    LET ru == sp.resolution_u + 1
        rv == sp.resolution_v + 1
    IN  <<Tok("{\npatch", <<o.option_nurbs>>, <<>>),
          Tok("matname\n", patch_matname(o, ob, sp), <<>>),
          IF o.option_nurbs = "Def2"
          THEN Tok("( nu nv 0 0 0 )\n(\n", <<>>, <<nu, nv>>)
          ELSE Tok("( nu nv ru rv 0 0 0 )\n(\n", <<>>, <<nu, nv, ru, rv>>)>>

\* lines 751-787
process_patch(o, ob, sp) ==
    LET nu == sp.point_count_u + BoolInt(sp.use_cyclic_u)
        nv == sp.point_count_v + BoolInt(sp.use_cyclic_v)
    IN  IF nu - 1 = 0 \/ nv - 1 = 0
        THEN \* line 765: du, dv = 1/(nu-1), -1/(nv-1), before the test
             Outcome(<<>>, <<>>, "ZeroDivisionError")
        ELSE IF nu % 2 = 0 \/ nv % 2 = 0 \/ nu = 1 \/ nv = 1
        THEN Outcome(<<>>, <<Report("WARNING", "Skipped invalid patch", ob.name)>>, "")
        ELSE IF ~o.option_tm
        THEN \* line 781-784: co[:3] is a tuple; tuple * float raises
             Outcome(patch_header(o, ob, sp, nu, nv) \o <<Tok("( ", <<>>, <<>>)>>,
                     <<>>, "TypeError")
        ELSE Outcome(patch_header(o, ob, sp, nu, nv)
                       \o patch_rows(o, ob, sp, 0, nu, nv)
                       \o <<Tok(")\n}\n}\n", <<>>, <<>>)>>, <<>>, "")

(***************************************************************************)
(* Specification SpecPatch: process_patch called on one spline.            *)
(***************************************************************************)
MaxPoints == 3

ControlPoints(wu, wv) == [k \in 1..(wu * wv) |-> <<2 * k + 1, k, -k, 1>>]

PatchSplines ==
    { [point_count_u |-> wu, point_count_v |-> wv,
       use_cyclic_u |-> cu, use_cyclic_v |-> cv,
       resolution_u |-> 2, resolution_v |-> 1, material_index |-> 0,
       points |-> ControlPoints(wu, wv)] :
         wu \in 1..MaxPoints, wv \in 1..MaxPoints,
         cu \in BOOLEAN, cv \in BOOLEAN }

PatchObjects ==
    { [name |-> <<"S", "u", "r", "f">>, type |-> "SURFACE",
       material_slots |-> ms, matrix_world |-> t] :
         ms \in {<<>>, <<[name |-> <<"a", " ", "b">>]>>},
         t \in {<<0, 0, 0>>, <<1, 0, 3>>} }

InitPatch ==
    /\ opt \in {[DefaultOptions EXCEPT !.option_nurbs = n, !.option_tm = tm,
                                       !.option_grid = g, !.option_scale = sc] :
                   n \in {"Def2", "Def3"}, tm \in BOOLEAN, g \in {0, 2},
                   sc \in {1, 2}}
    /\ obj \in PatchObjects
    /\ spline \in PatchSplines
    /\ map_text = <<>> /\ reports = <<>> /\ raised = ""
    /\ pc = "call"
    /\ IdleSnap /\ IdleTex /\ IdleMesh /\ IdleExec

\* self.process_patch(obj, spline, fw)
ProcessPatch ==
    /\ pc = "call"
    /\ LET out == process_patch(opt, obj, spline)
       IN  /\ map_text' = map_text \o out.text
           /\ reports' = reports \o out.reports
           /\ raised' = out.raised
           /\ pc' = IF out.raised = "" THEN "returned" ELSE "raised"
    /\ UNCHANGED <<opt, obj, spline, snapVars, texVars, meshVars, runVars>>

NextPatch == ProcessPatch

SpecPatch == InitPatch /\ [][NextPatch]_vars

spline_nu == spline.point_count_u + BoolInt(spline.use_cyclic_u)
spline_nv == spline.point_count_v + BoolInt(spline.use_cyclic_v)

\* C4: a spline with nu = 1 or nv = 1 is handled as a non-fatal invalid
\* patch: process_patch reports a WARNING, writes nothing and raises nothing.
C4_LengthOneAxisWarned ==
    (pc # "call" /\ (spline_nu = 1 \/ spline_nv = 1)) =>
        /\ pc = "returned" /\ raised = ""
        /\ map_text = <<>>
        /\ Len(reports) = 1 /\ reports[1].level = "WARNING"

\* C5: for every spline with an even, non-wrapped control-point count along
\* either axis, whatever the other axis, process_patch reports a warning and
\* emits no output.
C5_EvenNonWrappedWarned ==
    (/\ pc # "call"
     /\ \/ (spline.point_count_u % 2 = 0 /\ ~spline.use_cyclic_u)
        \/ (spline.point_count_v % 2 = 0 /\ ~spline.use_cyclic_v)) =>
        /\ pc = "returned" /\ raised = ""
        /\ map_text = <<>>
        /\ Len(reports) = 1 /\ reports[1].level = "WARNING"

(***************************************************************************)
(* process_mesh (Brush Builder), the per-face strategies                   *)
(*                                                                         *)
(* A mesh object is [name, qmap_geo_type, matrix_world, material_slots,    *)
(* faces], matrix_world modelled by its translation.  The model's meshes   *)
(* are made of axis-aligned rectangles that share no vertices, with        *)
(* integer coordinates: the faces are convex and planar, so the            *)
(* connect_verts and triangulate operators of lines 688-698 leave them     *)
(* alone; a vertex normal is its face's normal and the shell factor is 1.  *)
(***************************************************************************)
\* BM_face_calc_normal, not normalised: a triangle's edge cross product, a
\* quad's diagonal cross product; the zero vector for a zero-area face
calc_normal(verts) ==
    IF Len(verts) = 3
    THEN Cross(Sub(verts[2], verts[1]), Sub(verts[3], verts[1]))
    ELSE Cross(Sub(verts[1], verts[3]), Sub(verts[2], verts[4]))

\* a process_mesh without the test of line 704
area_never_negligible(f) == FALSE

\* line 704, face.calc_area() <= 1e-4.  The vertices are integer vectors and
\* the faces planar rectangles, so (2 * area)^2 is the integer below and the
\* area is at most 1e-4 exactly when it is zero.
area_is_negligible(f) ==
    Dot(calc_normal(f.verts), calc_normal(f.verts)) = 0

\* lines 661-667 without the gridsnap of line 667
working_mesh_unsnapped(o, ob) ==
    [i \in DOMAIN ob.faces |->
        [ob.faces[i] EXCEPT !.verts =
            [j \in DOMAIN @ |->
                Scale(o.option_scale,
                      IF o.option_tm THEN Add(@[j], ob.matrix_world) ELSE @[j])]]]

\* lines 661-667: the faces of bm after the transform, the scale and the snap
working_mesh(o, ob) ==
    [i \in DOMAIN ob.faces |->
        [ob.faces[i] EXCEPT !.verts =
            [j \in DOMAIN @ |->
                gridsnap(o, Scale(o.option_scale,
                                  IF o.option_tm THEN Add(@[j], ob.matrix_world)
                                  ELSE @[j]))]]]

\* line 700: min(vert.co.z for vert in bm.verts)
min_z(mesh) ==
    LET zs == {mesh[i].verts[j][3] : i \in DOMAIN mesh, j \in 1..4}
    IN  CHOOSE z \in zs : \A y \in zs : z <= y

\* bmesh.ops.poke of a rectangle: the centre vertex (the mean of the corners,
\* moved by offset along the normal) and its loop UV
poke_center(f, offset) ==
    LET mid == [k \in 1..3 |-> (f.verts[1][k] + f.verts[3][k]) \div 2]
    IN  Add(mid, Scale(offset, f.normal))

poke_center_uv(f) == [k \in 1..2 |-> (f.uv[1][k] + f.uv[3][k]) \div 2]

\* lines 740-742 on one new face: normal_update and normal_flip (the loop
\* cycle reversed from the same first loop), the material of the empty slot
flipped(ob, verts, uv, role) ==
    LET n == Len(verts)
        rev(x) == [k \in 1..n |-> IF k = 1 THEN x[1] ELSE x[n + 2 - k]]
    IN  [verts |-> rev(verts), uv |-> rev(uv),
         normal |-> calc_normal(rev(verts)),
         material_index |-> Len(ob.material_slots) - 1,
         role |-> role]

\* lines 711-717: the faces poke returns, (v[i], v[i+1], centre) for every
\* edge, once the centre is placed
poke_faces(o, ob, f, geo_type, origin) ==
    LET c == poke_center(f, -o.option_depth)
        apex == IF geo_type = "Blob" THEN origin ELSE gridsnap(o, c)
        cuv == poke_center_uv(f)
        nxt(i) == (i % 4) + 1
    IN  [i \in 1..4 |->
            flipped(ob, <<f.verts[i], f.verts[nxt(i)], apex>>,
                        <<f.uv[i], f.uv[nxt(i)], cuv>>, "side")]

\* lines 719-737 with a Soup cap lowered from its own face's lowest vertex
\* instead of the mesh's
extrude_faces_own_bottom(o, ob, f, geo_type, bot) ==
    LET own == min_z(<<f>>) - o.option_depth
        moved(v) == IF geo_type = "Soup" THEN <<v[1], v[2], own>>
                    ELSE Sub(v, Scale(o.option_depth, f.normal))
        new_verts == [i \in 1..4 |-> moved(f.verts[i])]
        nxt(i) == (i % 4) + 1
    IN  <<flipped(ob, new_verts, f.uv, "cap")>> \o
        [i \in 1..4 |->
            flipped(ob, <<f.verts[nxt(i)], new_verts[nxt(i)],
                          new_verts[i], f.verts[i]>>,
                        <<f.uv[nxt(i)], f.uv[nxt(i)], f.uv[i], f.uv[i]>>,
                        "wall")]

\* lines 719-737: the cap extrude_discrete_faces returns (the clone's loop
\* order) and the walls region_extend finds around it,
\* (v[i+1], new[i+1], new[i], v[i]) for every edge
extrude_faces(o, ob, f, geo_type, bot) ==
    LET moved(v) == IF geo_type = "Soup" THEN <<v[1], v[2], bot>>
                    ELSE Sub(v, Scale(o.option_depth, f.normal))
        new_verts == [i \in 1..4 |-> moved(f.verts[i])]
        nxt(i) == (i % 4) + 1
    IN  <<flipped(ob, new_verts, f.uv, "cap")>> \o
        [i \in 1..4 |->
            flipped(ob, <<f.verts[nxt(i)], new_verts[nxt(i)],
                          new_verts[i], f.verts[i]>>,
                        <<f.uv[nxt(i)], f.uv[nxt(i)], f.uv[i], f.uv[i]>>,
                        "wall")]

new_faces(o, ob, f, geo_type, origin, bot) ==
    IF geo_type \in {"Faces", "Blob"} THEN poke_faces(o, ob, f, geo_type, origin)
    ELSE extrude_faces(o, ob, f, geo_type, bot)

\* a brushplane that writes the first three vertices in the face's order
brushplane_unreversed(o, f) ==
    IF o.option_brush = "Quake"
    THEN Tok("( v ) ( v ) ( v ) ", <<>>, f.verts[1] \o f.verts[2] \o f.verts[3])
    ELSE Tok("( normal dist ) ", IF IsZero(f.normal) THEN <<"nan">> ELSE <<>>,
             f.normal \o <<-Dot(f.normal, f.verts[1])>>)

\* lines 377-387.  Quake: the first three vertices, reversed.  Doom3: the
\* normal and the distance of the origin from the plane; both are kept
\* multiplied by the length of the model's normal vector (1 for a normal
\* along an axis), and a zero normal makes the distance 0/0
brushplane(o, f) ==
    IF o.option_brush = "Quake"
    THEN Tok("( v ) ( v ) ( v ) ", <<>>, f.verts[3] \o f.verts[2] \o f.verts[1])
    ELSE Tok("( normal dist ) ", IF IsZero(f.normal) THEN <<"nan">> ELSE <<>>,
             f.normal \o <<-Dot(f.normal, f.verts[1])>>)

lower(name) ==
    [i \in DOMAIN name |->
        CASE name[i] = "D" -> "d" [] name[i] = "E" -> "e" [] name[i] = "T" -> "t"
          [] name[i] = "A" -> "a" [] name[i] = "I" -> "i" [] name[i] = "L" -> "l"
          [] OTHER -> name[i]]

\* needle in hay, for sequences of characters
contains(hay, needle) ==
    \E i \in 0..(Len(hay) - Len(needle)) :
        SubSeq(hay, i + 1, i + Len(needle)) = needle

\* lines 390-406; a face without face map has index -1, which selects the
\* face map added at line 396
faceflags(o, f, ob) ==
    IF o.option_flags = "None" THEN <<>>
    ELSE LET fm_name == IF ob.face_maps # <<>>
                        THEN IF f.face_map >= 0 THEN ob.face_maps[f.face_map + 1]
                             ELSE <<"M", "a", "p">>
                        ELSE <<>>
             names == ob.name \o ob.users_collection \o fm_name
         IN  IF contains(lower(names), <<"d", "e", "t", "a", "i", "l">>)
             THEN <<134217728, 0, 0>>
             ELSE <<0, 0, 0>>

\* the face line's second fw call: texdata(face) + flags
texline(r, flags) ==
    Tok("texdata flags\n", <<r.fmt, r.kind>> \o r.texstring, r.nums \o flags)

\* lines 708-709 and 740-744 on the faces fs in turn: every way of writing
\* their face lines.  The first texdata call that raises ends the writing,
\* after the fw of its brushplane.
RECURSIVE write_faces(_, _, _, _)
write_faces(o, ob, fs, flags) ==
    IF fs = <<>> THEN {[text |-> <<>>, faces |-> <<>>, raised |-> ""]}
    ELSE LET f == Head(fs)
             plane == brushplane(o, f)
         IN  UNION {
               IF r.kind = "error"
               THEN {[text |-> <<plane>>, faces |-> <<>>, raised |-> r.raised]}
               ELSE {[text |-> <<plane, texline(r, flags)>> \o rest.text,
                      faces |-> <<[verts |-> f.verts, normal |-> f.normal,
                                   role |-> f.role, tex |-> r.kind]>> \o rest.faces,
                      raised |-> rest.raised] :
                        rest \in write_faces(o, ob, Tail(fs), flags)} :
               r \in texdata(o, ob, f)}

\* a template whose closing string is its opening string
template_never_closing(o) ==
    IF o.option_brush = "Doom3" THEN <<"{\nbrushDef3\n{\n", "{\nbrushDef3\n{\n">>
    ELSE IF o.option_uv = "BPrim" THEN <<"{\nbrushDef\n{\n", "{\nbrushDef\n{\n">>
    ELSE <<"{\n", "{\n">>

\* lines 880-886
template(o) ==
    IF o.option_brush = "Doom3" THEN <<"{\nbrushDef3\n{\n", "}\n}\n">>
    ELSE IF o.option_uv = "BPrim" THEN <<"{\nbrushDef\n{\n", "}\n}\n">>
    ELSE <<"{\n", "}\n">>

\* lines 653-655
geo_type_of(o, ob) ==
    IF ob.qmap_geo_type = "Default" THEN o.option_geo ELSE ob.qmap_geo_type

\* the empty material slot of line 657
EmptySlot == [name |-> <<>>, has_image |-> FALSE, size |-> <<0, 0>>]

\* line 657: obj.data.materials.append(None)
with_empty_slot(ob) == [ob EXCEPT !.material_slots = Append(@, EmptySlot)]

\* lines 699-701
soup_bottom(o, ob, mesh) ==
    IF geo_type_of(o, ob) = "Soup" THEN min_z(mesh) - o.option_depth ELSE 0

\* lines 703-745, one iteration of the loop over bm.faces[:], on face i of
\* the working mesh: every way it can go, as [text, faces, raised] (the
\* tokens written, the faces whose lines were written, the exception).  ob
\* has the empty material slot.
mesh_face(o, ob, mesh, i, bot) ==
    LET f == mesh[i]
        origin == gridsnap(o, ob.matrix_world)
        fs == <<f>> \o new_faces(o, ob, f, geo_type_of(o, ob), origin, bot)
    IN  IF area_is_negligible(f)
        THEN {[text |-> <<>>, faces |-> <<>>, raised |-> ""]}
        ELSE {[text |-> <<Tok(template(o)[1], <<>>, <<>>)>> \o w.text
                          \o IF w.raised = ""
                             THEN <<Tok(template(o)[2], <<>>, <<>>)>>
                             ELSE <<>>,
               faces |-> w.faces, raised |-> w.raised] :
                 w \in write_faces(o, ob, fs, faceflags(o, f, ob))}

\* lines 652-667 and 688-701 of process_mesh(obj, fw, template)
MeshBegin ==
    /\ pc = "call"
    /\ obj' = with_empty_slot(obj)
    /\ bm' = working_mesh(opt, obj)
    /\ bottom' = soup_bottom(opt, obj, working_mesh(opt, obj))
    /\ cursor' = 1
    /\ pc' = "faces"
    /\ UNCHANGED <<opt, snapVars, texVars, patchVars, emitted, outVars, runVars>>

\* lines 703-745: one iteration of the loop over bm.faces[:]
MeshFace ==
    /\ pc = "faces" /\ cursor <= Len(bm)
    /\ cursor' = cursor + 1
    /\ \E w \in mesh_face(opt, obj, bm, cursor, bottom) :
          /\ map_text' = map_text \o w.text
          /\ emitted' = emitted \o
               [k \in DOMAIN w.faces |->
                   [brush |-> cursor, role |-> w.faces[k].role,
                    verts |-> w.faces[k].verts,
                    normal |-> w.faces[k].normal,
                    tex |-> w.faces[k].tex]]
          /\ raised' = w.raised
          /\ pc' = IF w.raised = "" THEN pc ELSE "raised"
    /\ UNCHANGED <<opt, snapVars, texVars, obj, patchVars, bm, bottom, reports,
                   runVars>>

\* lines 747-748: the loop is over, the empty slot is removed
MeshEnd ==
    /\ pc = "faces" /\ cursor > Len(bm)
    /\ obj' = [obj EXCEPT !.material_slots = SubSeq(@, 1, Len(@) - 1)]
    /\ pc' = "returned"
    /\ UNCHANGED <<opt, snapVars, texVars, patchVars, meshVars, outVars, runVars>>

(***************************************************************************)
(* entname, process_light, process_empty (Entity Writer)                   *)
(*                                                                         *)
(* Names are sequences of characters.  An object's custom properties       *)
(* (obj.keys() and obj[prop]) are a sequence of [key, value, scalar],     *)
(* scalar telling whether the value is an int, a float or a str.  The      *)
(* model's objects are not rotated: matrix_world is a translation.         *)
(***************************************************************************)
Digits == {"0", "1", "2", "3", "4", "5", "6", "7", "8", "9"}

\* name.rstrip('0123456789')
RECURSIVE rstrip_digits(_)
rstrip_digits(name) ==
    IF name # <<>> /\ name[Len(name)] \in Digits
    THEN rstrip_digits(SubSeq(name, 1, Len(name) - 1))
    ELSE name

\* lines 350-351 and 854-855: [name, raised]; tname[-1] of an empty string
\* raises IndexError
classname_of(name) ==
    LET tname == rstrip_digits(name)
    IN  IF tname = <<>> THEN [name |-> <<>>, raised |-> "IndexError"]
        ELSE IF tname[Len(tname)] \in {".", " "}
        THEN [name |-> SubSeq(tname, 1, Len(tname) - 1), raised |-> ""]
        ELSE [name |-> name, raised |-> ""]

\* list.count
count(seen, x) == Cardinality({i \in DOMAIN seen : seen[i] = x})

\* self.seen_names.append(x), lines 355 and 841
seen_append(seen, x) == Append(seen, x)

\* lines 344-359: [text, seen, raised], seen the value of self.seen_names
\* after the call.  The empty string of option_group 'None' is no token.
entname(o, ent, seen) ==
    LET cn == IF o.option_group = "Gen"
              THEN [name |-> o.option_gname, raised |-> ""]
              ELSE classname_of(ent.name)
        seen2 == seen_append(seen, cn.name)
        n_name == count(seen2, cn.name)
    IN  IF o.option_group = "None"
        THEN [text |-> <<>>, seen |-> seen, raised |-> ""]
        ELSE IF cn.raised # ""
        THEN [text |-> <<>>, seen |-> seen, raised |-> cn.raised]
        ELSE IF o.option_brush = "Doom3"
        THEN [text |-> <<Tok("}\n{\n\"classname\" \"tname\"\n", cn.name, <<>>),
                         Tok("\"name\" \"tname_n\"\n", cn.name, <<n_name>>),
                         Tok("\"model\" \"tname_n\"\n", cn.name, <<n_name>>)>>,
              seen |-> seen2, raised |-> ""]
        ELSE [text |-> <<Tok("}\n{\n\"classname\" \"tname\"\n", cn.name, <<>>)>>,
              seen |-> seen, raised |-> ""]

spot_name == <<"spot_target_">>
spot_offset == 64

has_key(ob, key) == \E i \in DOMAIN ob.props : ob.props[i].key = key

\* lines 806-810 and 867-869: the custom properties that are written
custom_props(ob, reserved) ==
    LET keep == SelectSeq(ob.props,
                          LAMBDA pr : pr.key \notin reserved /\ pr.scalar)
    IN  [i \in DOMAIN keep |-> Tok("\"prop\" \"value\"\n", <<keep[i].key>>,
                                   <<keep[i].value>>)]

\* lines 790-850: [text, seen].  A number the code computes with
\* trigonometry is kept as the token's arguments.
process_light(o, ob, seen) ==
    LET origin == Scale(o.option_scale, ob.matrix_world)
        \* intensity as a fraction <<numerator, denominator>>
        intensity == IF o.option_lights = "Auto"
                     THEN <<ob.energy * o.option_scale * o.option_scale, 40 * 40>>
                     ELSE <<ob.energy, 1>>
        seen2 == seen_append(seen, spot_name)
        spot_num == count(seen2, spot_name)
        quake_spot == ob.light_type = "SPOT" /\ o.option_brush = "Quake"
        head == <<Tok("{\n\"classname\" \"light\"\n", <<>>, <<>>),
                  Tok("\"origin\" \"v\"\n", <<>>, origin),
                  Tok("\"_color\" \"v\"\n", <<>>, ob.color),
                  Tok("\"light\" \"intensity\"\n", <<>>, intensity)>>
        delay == IF has_key(ob, "delay") THEN <<>>
                 ELSE <<Tok("\"delay\" \"2\"\n", <<>>, <<>>)>>
        \* shadow_soft_size is a fraction too
        deviance == IF ~has_key(ob, "_deviance")
                       /\ ob.shadow_soft_size[1] * 4 # ob.shadow_soft_size[2]
                    THEN <<Tok("\"_deviance\" \"pt_size * scale\"\n", <<>>,
                               <<ob.shadow_soft_size[1] * o.option_scale,
                                 ob.shadow_soft_size[2]>>)>>
                    ELSE <<>>
        props == custom_props(ob, {"classname", "origin", "light", "_color",
                                   "angle", "_softangle", "radius", "target"})
        texture(t) == IF has_key(ob, "texture") THEN <<>>
                      ELSE <<Tok("\"texture\" \"t\"\n", <<t>>, <<>>)>>
        byType ==
            IF ob.light_type = "POINT" /\ o.option_brush = "Doom3"
            THEN (IF has_key(ob, "light_radius") THEN <<>>
                  ELSE <<Tok("\"light_radius\" \"r r r\"\n", <<>>,
                             <<intensity[1] * 10, intensity[2]>>)>>)
                 \o texture("lights/falloff_exp1")
            ELSE IF ob.light_type = "SPOT" /\ o.option_brush = "Doom3"
            THEN <<Tok("\"light_target\" \"0 0 -fw\"\n", <<>>,
                       <<ob.spot_size, 10 * o.option_scale>>),
                   Tok("\"light_right\" \"rt 0 0\"\n", <<>>,
                       <<ob.spot_size, 10 * o.option_scale>>),
                   Tok("\"light_up\" \"0 up 0\"\n", <<>>,
                       <<ob.spot_size, 10 * o.option_scale>>)>>
                 \o texture("lights/spot01")
                 \o <<Tok("\"rotation\" \"m\"\n", <<>>,
                          <<1, 0, 0, 0, 1, 0, 0, 0, 1>>)>>
            ELSE IF quake_spot
            THEN <<Tok("\"angle\" \"spot_deg\"\n", <<>>, <<ob.spot_size>>),
                   Tok("\"_softangle\" \"spot_inner\"\n", <<>>,
                       <<ob.spot_size, ob.spot_blend>>),
                   Tok("\"radius\" \"tan * 64\"\n", <<>>, <<ob.spot_size>>),
                   Tok("\"target\" \"spot_target_n\"\n", spot_name, <<spot_num>>),
                   Tok("}\n{\n", <<>>, <<>>),
                   Tok("\"classname\" \"info_null\"\n", <<>>, <<>>),
                   Tok("\"origin\" \"v\"\n", <<>>,
                       Add(<<0, 0, -spot_offset>>, origin)),
                   Tok("\"targetname\" \"spot_target_n\"\n", spot_name,
                       <<spot_num>>)>>
            ELSE <<>>
    IN  [text |-> head \o delay \o deviance \o props \o byType
                    \o <<Tok("}\n", <<>>, <<>>)>>,
         seen |-> IF quake_spot THEN seen2 ELSE seen]

\* lines 853-870: [text, raised]
process_empty(o, ob) ==
    LET cn == classname_of(ob.name)
        origin == Scale(o.option_scale, ob.matrix_world)
        angles == IF has_key(ob, "angles") THEN <<>>
                  ELSE <<Tok("\"angles\" \"v\"\n",
                             IF ob.type = "CAMERA" THEN <<"cam_correct">> ELSE <<>>,
                             <<0, 0, 0>>)>>
    IN  IF cn.raised # "" THEN [text |-> <<>>, raised |-> cn.raised]
        ELSE [text |-> <<Tok("{\n\"classname\" \"name\"\n", cn.name, <<>>),
                         Tok("\"origin\" \"v\"\n", <<>>, origin)>>
                       \o angles \o custom_props(ob, {})
                       \o <<Tok("}\n", <<>>, <<>>)>>,
              raised |-> ""]

(***************************************************************************)
(* Specification SpecMesh: process_mesh called on one mesh object under a  *)
(* per-face strategy.                                                      *)
(***************************************************************************)
MaxFaces == 2

\* The rectangle in the plane "coordinate k = h" with corners (a0, b0) and
\* (a1, b1), wound counter-clockwise around the normal sgn * e_k (k is 1 or
\* 3).  uvmode "planar" maps the in-plane coordinates to UV; "none" is the
\* all-zero dummy layer of lines 426-428.
Rect(k, sgn, h, a0, a1, b0, b1, uvmode) ==
    LET ccw == <<<<a0, b0>>, <<a1, b0>>, <<a1, b1>>, <<a0, b1>>>>
        pts == IF sgn = 1 THEN ccw ELSE <<ccw[1], ccw[4], ccw[3], ccw[2]>>
    IN  [verts |-> [i \in 1..4 |-> Embed(k, h, pts[i])],
         uv |-> [i \in 1..4 |-> IF uvmode = "planar" THEN pts[i] ELSE <<0, 0>>],
         normal |-> Unit(k, sgn),
         material_index |-> 0, face_map |-> -1, role |-> "orig"]

MeshRects(uvmode) ==
    << Rect(3, 1, 0, 0, 4, 0, 4, uvmode),      \* a floor
       Rect(3, 1, 6, 0, 2, 0, 4, uvmode),      \* a narrow step
       Rect(1, 1, 4, 0, 4, 0, 4, uvmode),      \* a vertical wall
       Rect(3, -1, 4, 2, 6, 0, 4, uvmode) >>   \* a ceiling, facing down

\* the meshes: n successive rectangles of the list above, from any of them
MeshFaces(first, n, uvmode) ==
    [i \in 1..n |-> MeshRects(uvmode)[((first + i - 2) % 4) + 1]]

MeshObjects ==
    { [name |-> <<"o", "b">>, users_collection |-> <<"c">>,
       qmap_geo_type |-> "Default", matrix_world |-> place[1],
       material_slots |-> <<[name |-> <<"m">>, has_image |-> FALSE,
                             size |-> <<0, 0>>]>>,
       face_maps |-> <<>>, faces |-> MeshFaces(first, n, place[2])] :
         place \in {<<<<0, 0, 0>>, "planar">>, <<<<2, 0, -2>>, "none">>},
         first \in 1..4, n \in 1..MaxFaces }

InitMesh ==
    /\ opt \in {[DefaultOptions EXCEPT !.option_geo = g, !.option_grid = gr,
                                       !.option_depth = d, !.option_uv = u] :
                   g \in {"Faces", "Prisms", "Soup", "Blob", "Miter"},
                   gr \in {0, 2, 4}, d \in {1, 4},
                   u \in {"Valve", "Quake", "BPrim"}}
    /\ obj \in MeshObjects
    /\ pc = "call"
    /\ IdleSnap /\ IdleTex /\ IdlePatch /\ IdleMesh /\ IdleOut /\ IdleExec

NextMesh == MeshBegin \/ MeshFace \/ MeshEnd

SpecMesh == InitMesh /\ [][NextMesh]_vars

\* the strategy of the call, and the lowest vertex of the working mesh
GeoType == geo_type_of(opt, obj)
LowestZ ==
    LET zs == {bm[i].verts[j][3] : i \in DOMAIN bm, j \in 1..4}
    IN  CHOOSE z \in zs : \A y \in zs : z <= y
OnGrid(v) == \A k \in DOMAIN v : v[k] % opt.option_grid = 0
ZeroArea(verts) == IsZero(calc_normal(verts))
Caps == {k \in DOMAIN emitted : emitted[k].role = "cap"}

\* C6: no exception propagates out of the processing of a face: whatever
\* the strategy, the texture format and the face, generated faces with a
\* zero-length edge included, process_mesh never ends by an exception.
C6_NoExceptionFromFaces == raised = "" /\ pc # "raised"

\* C7 as claimed: under Soup every cap vertex of every brush has the same Z,
\* and that Z is (lowest vertex Z of the working mesh - depth) snapped to the
\* grid.
C7_SoupCapsAtSnappedBottom ==
    (GeoType = "Soup" /\ pc # "call") =>
        \A k \in Caps : \A j \in 1..4 :
            emitted[k].verts[j][3] =
                gridsnap(opt, <<LowestZ - opt.option_depth>>)[1]

\* C7 as amended: under Soup every cap vertex of every brush has the same Z,
\* (lowest vertex Z of the snapped working mesh) - depth, and that value is
\* not snapped: with grid > 0 it is a multiple of grid exactly when depth is.
C7_SoupCapsAtBottom ==
    (GeoType = "Soup" /\ pc # "call") =>
        \A k \in Caps : \A j \in 1..4 :
            /\ emitted[k].verts[j][3] = LowestZ - opt.option_depth
            /\ opt.option_grid > 0 =>
                  (emitted[k].verts[j][3] % opt.option_grid = 0
                      <=> opt.option_depth % opt.option_grid = 0)

\* two brushes of faces at different heights, caps off the grid
C7_Witness ==
    /\ GeoType = "Soup" /\ opt.option_grid = 2 /\ opt.option_depth = 1
    /\ \E k1, k2 \in Caps :
          /\ emitted[k1].brush = 1 /\ emitted[k2].brush = 2
          /\ bm[1].verts[1][3] # bm[2].verts[1][3]
          /\ emitted[k1].verts[1][3] = -1 /\ emitted[k2].verts[3][3] = -1

Processed == IF pc = "call" THEN {} ELSE 1..(cursor - 1)
BrushBlocks == {k \in DOMAIN map_text : map_text[k].kind = template(opt)[1]}

hull_verts(mesh) ==
    UNION {{mesh[i].verts[j] : j \in DOMAIN mesh[i].verts} : i \in DOMAIN mesh}

\* a, b, c span a plane with every point of P on one side of it: a hull
\* triangle (any triangle of a hull facet)
supporting(a, b, c, P) ==
    LET n == Cross(Sub(b, a), Sub(c, a))
    IN  /\ ~IsZero(n)
        /\ \/ \A q \in P : Dot(n, Sub(q, a)) <= 0
           \/ \A q \in P : Dot(n, Sub(q, a)) >= 0

\* bmesh.ops.convex_hull(input=bm.verts, use_existing_faces=True), line 670:
\* whether face f is in geom + geom_holes: all its edges are hull edges and
\* a hull triangle has its three vertices in f
on_hull(f, P) ==
    LET n == Len(f.verts)
    IN  /\ \A j \in 1..n :
              \E c \in P : supporting(f.verts[j], f.verts[(j % n) + 1], c, P)
        /\ \E i, j, k \in 1..n : supporting(f.verts[i], f.verts[j], f.verts[k], P)

\* lines 670-674: the faces left once the interior faces are deleted
convex_hull(mesh) ==
    SelectSeq(mesh, LAMBDA f : on_hull(f, hull_verts(mesh)))

\* BM_face_normal_flip: the loop cycle reversed, the stored normal negated
normal_flip(f) ==
    LET n == Len(f.verts)
        rev(x) == [k \in 1..n |-> IF k = 1 THEN x[1] ELSE x[n + 2 - k]]
    IN  [f EXCEPT !.verts = rev(@), !.uv = rev(@), !.normal = Scale(-1, @)]

\* bmesh.ops.recalc_face_normals on the faces of a convex solid, line 675:
\* a face whose winding looks into the solid is flipped
recalc_face_normals(mesh) ==
    LET P == hull_verts(mesh)
        inward(f) == \E q \in P :
                        Dot(Cross(Sub(f.verts[2], f.verts[1]),
                                  Sub(f.verts[3], f.verts[1])),
                            Sub(q, f.verts[1])) > 0
    IN  [i \in DOMAIN mesh |-> IF inward(mesh[i]) THEN normal_flip(mesh[i])
                               ELSE mesh[i]]

\* the index of the vertex of triangle f that triangle g does not have, 0
\* unless there is exactly one
apex_index(f, g) ==
    LET own == {j \in 1..3 : \A k \in 1..3 : f.verts[j] # g.verts[k]}
    IN  IF Len(f.verts) = 3 /\ Len(g.verts) = 3 /\ Cardinality(own) = 1
        THEN CHOOSE j \in own : TRUE ELSE 0

\* angle_face_threshold = 0.01 (line 677): the angle of the stored normals
\* is below 0.01 rad, cos(0.01)^2 > 0.9999 being compared on the squares
JoinCosSquared == 9999
JoinCosScale == 10000
faces_delimit(f, g) ==
    LET d == Dot(f.normal, g.normal)
    IN  \/ d <= 0
        \/ JoinCosScale * d * d
              <= JoinCosSquared * Dot(f.normal, f.normal) * Dot(g.normal, g.normal)

\* whether join_triangles merges triangles f and g: they share an edge and
\* their normals agree.  The pairs of the model that pass form rectangles,
\* whose shape error is 0 (angle_shape_threshold = 0.7).
joinable(f, g) ==
    /\ apex_index(f, g) # 0 /\ apex_index(g, f) # 0
    /\ ~faces_delimit(f, g)

\* the quad made of triangles f and g: f's loops from its own apex, g's apex
\* inserted on the shared edge
join_pair(f, g) ==
    LET i == apex_index(f, g)
        j == apex_index(g, f)
        at(x, k) == x[((i + k - 1) % 3) + 1]
    IN  [f EXCEPT !.verts = <<at(f.verts, 0), at(f.verts, 1), g.verts[j], at(f.verts, 2)>>,
                  !.uv = <<at(f.uv, 0), at(f.uv, 1), g.uv[j], at(f.uv, 2)>>]

\* bmesh.ops.join_triangles, lines 676-677: joinable pairs are merged, the
\* merged face goes to the end of bm.faces
RECURSIVE join_triangles(_)
join_triangles(mesh) ==
    LET pairs == {p \in (DOMAIN mesh) \X (DOMAIN mesh) :
                     p[1] < p[2] /\ joinable(mesh[p[1]], mesh[p[2]])}
    IN  IF pairs = {} THEN mesh
        ELSE LET p == CHOOSE q \in pairs :
                          \A r \in pairs : q[1] < r[1] \/ (q[1] = r[1] /\ q[2] <= r[2])
                 rest == SelectSeq([k \in DOMAIN mesh |->
                                       IF k \in {p[1], p[2]} THEN <<>> ELSE <<mesh[k]>>],
                                   LAMBDA x : x # <<>>)
             IN  join_triangles([k \in DOMAIN rest |-> rest[k][1]]
                                \o <<join_pair(mesh[p[1]], mesh[p[2]])>>)

\* a quad whose fourth vertex is off the plane of the first three
nonplanar(f) ==
    /\ Len(f.verts) = 4
    /\ Dot(Cross(Sub(f.verts[2], f.verts[1]), Sub(f.verts[3], f.verts[1])),
           Sub(f.verts[4], f.verts[1])) # 0

\* BM_face_split of quad f between loops a and a + 2: the two triangles,
\* with the normals of their own vertices
split_quad(f, a) ==
    LET at(x, k) == x[((a + k - 1) % 4) + 1]
        tri(k1, k2, k3) ==
            [f EXCEPT !.verts = <<at(f.verts, k1), at(f.verts, k2), at(f.verts, k3)>>,
                      !.uv = <<at(f.uv, k1), at(f.uv, k2), at(f.uv, k3)>>,
                      !.normal = calc_normal(<<at(f.verts, k1), at(f.verts, k2),
                                              at(f.verts, k3)>>)]
    IN  <<tri(0, 1, 2), tri(0, 2, 3)>>

\* bmesh.ops.connect_verts_nonplanar(angle_limit=0.0), lines 678-679: every
\* non-planar quad is split along a diagonal.  Both diagonals leave two
\* planar triangles, and which one the operator takes depends on the loop
\* the face starts from: the set of the meshes it can leave.
RECURSIVE connect_verts_nonplanar(_)
connect_verts_nonplanar(mesh) ==
    IF mesh = <<>> THEN {<<>>}
    ELSE LET f == Head(mesh)
             heads == IF nonplanar(f) THEN {split_quad(f, 1), split_quad(f, 2)}
                      ELSE {<<f>>}
         IN  {h \o t : h \in heads, t \in connect_verts_nonplanar(Tail(mesh))}

\* lines 670-679: the meshes the Brush strategy can leave in bm
brush_mesh(o, ob) ==
    connect_verts_nonplanar(
        join_triangles(recalc_face_normals(convex_hull(working_mesh(o, ob)))))

(***************************************************************************)
(* execute (Scene Exporter)                                                *)
(*                                                                         *)
(* The scene is [objects, collections]: objects the sequence execute       *)
(* iterates (context.selected_objects or scene.objects), collections the   *)
(* sequence [scene.collection] + bpy.data.collections[:], each [name,      *)
(* objects] with objects the indices of its members.  Every object has     *)
(* name, type, qmap_geo_type, users_collection (the name of its first      *)
(* collection) and matrix_world, and the fields of its type.               *)
(***************************************************************************)
\* lines 652-748 as one call: every way it can go, as [text, raised]
RECURSIVE mesh_loop(_, _, _, _, _)
mesh_loop(o, ob, mesh, i, bot) ==
    IF i > Len(mesh) THEN {[text |-> <<>>, raised |-> ""]}
    ELSE UNION {
           IF w.raised # "" THEN {[text |-> w.text, raised |-> w.raised]}
           ELSE {[text |-> w.text \o r.text, raised |-> r.raised] :
                    r \in mesh_loop(o, ob, mesh, i + 1, bot)} :
           w \in mesh_face(o, ob, mesh, i, bot)}

\* lines 681-684 as one loop, from face i of the mesh on: every way it can
\* go, as [text, raised]
RECURSIVE brush_faces(_, _, _, _)
brush_faces(o, ob, mesh, i) ==
    IF i > Len(mesh) THEN {[text |-> <<>>, raised |-> ""]}
    ELSE UNION {
           IF w.raised # "" THEN {[text |-> w.text, raised |-> w.raised]}
           ELSE {[text |-> w.text \o r.text, raised |-> r.raised] :
                    r \in brush_faces(o, ob, mesh, i + 1)} :
           w \in write_faces(o, ob, <<mesh[i]>>, faceflags(o, mesh[i], ob))}

\* an object without mesh data has no obj.data.materials (line 657); min()
\* of no vertices raises (line 700); lines 680-685 for the Brush strategy
process_mesh(o, ob) ==
    IF ob.type \in {"EMPTY", "CAMERA"}
    THEN {[text |-> <<>>, raised |-> "AttributeError"]}
    ELSE IF geo_type_of(o, ob) = "Brush"
    THEN UNION {
           {[text |-> <<Tok(template(o)[1], <<>>, <<>>)>> \o r.text
                        \o IF r.raised = ""
                           THEN <<Tok(template(o)[2], <<>>, <<>>)>> ELSE <<>>,
             raised |-> r.raised] :
                r \in brush_faces(o, with_empty_slot(ob), mesh, 1)} :
           mesh \in brush_mesh(o, ob)}
    ELSE IF geo_type_of(o, ob) = "Soup" /\ ob.faces = <<>>
    THEN {[text |-> <<>>, raised |-> "ValueError"]}
    ELSE mesh_loop(o, with_empty_slot(ob), working_mesh(o, ob), 1,
                   soup_bottom(o, ob, working_mesh(o, ob)))

\* str.startswith
startswith(name, prefix) ==
    Len(name) >= Len(prefix) /\ SubSeq(name, 1, Len(prefix)) = prefix

worldspawn == <<"w", "o", "r", "l", "d", "s", "p", "a", "w", "n">>

\* lines 896-923: the list an object is sorted into, or "skip"
sort_object(o, ob) ==
    IF ob.type = "LIGHT" /\ o.option_lights # "None" THEN "light"
    ELSE IF ob.type \in {"EMPTY", "CAMERA"} /\ o.option_empties # "None"
    THEN "empty"
    ELSE IF ob.type = "SURFACE" /\ o.option_nurbs \in {"Def2", "Def3"}
    THEN "patch"
    ELSE IF ob.type \notin {"EMPTY", "CAMERA", "SURFACE"}
            /\ \/ ob.type = "META" /\ contains(ob.name, <<".">>)
               \/ ob.type \notin {"MESH", "SURFACE", "CURVE", "FONT", "META"}
    THEN "skip"
    ELSE IF \/ o.option_group = "None"
            \/ /\ o.option_group = "Auto" /\ geo_type_of(o, ob) = "Brush"
               /\ startswith(ob.users_collection, worldspawn)
            \/ /\ o.option_group = "Auto" /\ geo_type_of(o, ob) # "Brush"
               /\ startswith(ob.name, worldspawn)
    THEN "wspwn"
    ELSE "bmodel"

RECURSIVE Flatten(_)
Flatten(seqs) == IF seqs = <<>> THEN <<>> ELSE Head(seqs) \o Flatten(Tail(seqs))

\* the indices of seq, in order, of the elements that satisfy Test
Indices(seq, Test(_)) ==
    LET F[i \in 0..Len(seq)] ==
            IF i = 0 THEN <<>>
            ELSE IF Test(seq[i]) THEN Append(F[i - 1], i) ELSE F[i - 1]
    IN  F[Len(seq)]

Step(kind, i, k) == [kind |-> kind, obj |-> i, arg |-> k]

\* lines 925-953: the calls execute makes, in order, after the sorting
plan(o, sc) ==
    LET objs == sc.objects
        sorted(kind) == Indices(objs, LAMBDA ob : sort_object(o, ob) = kind)
        wspwn == [n \in DOMAIN sorted("wspwn") |->
                     Step("mesh", sorted("wspwn")[n], 0)]
        patches == Flatten([n \in DOMAIN sorted("patch") |->
                     [k \in DOMAIN objs[sorted("patch")[n]].splines |->
                         Step("patch", sorted("patch")[n], k)]])
        ofCol(c) ==
            LET col == sc.collections[c]
                members == SelectSeq(col.objects,
                             LAMBDA i : sort_object(o, objs[i]) = "bmodel")
                brush == SelectSeq(members,
                             LAMBDA i : geo_type_of(o, objs[i]) = "Brush")
                faces == SelectSeq(members,
                             LAMBDA i : geo_type_of(o, objs[i]) # "Brush")
            IN  (IF brush # <<>> THEN <<Step("entname_col", 0, c)>> ELSE <<>>)
                \o [n \in DOMAIN brush |-> Step("mesh", brush[n], 0)]
                \o Flatten([n \in DOMAIN faces |->
                              <<Step("entname_obj", faces[n], 0),
                                Step("mesh", faces[n], 0)>>])
        bmodels == Flatten([c \in DOMAIN sc.collections |-> ofCol(c)])
        lights == [n \in DOMAIN sorted("light") |->
                      Step("light", sorted("light")[n], 0)]
        empties == [n \in DOMAIN sorted("empty") |->
                      Step("empty", sorted("empty")[n], 0)]
    IN  wspwn \o patches \o bmodels \o <<Step("close", 0, 0)>> \o lights \o empties

\* an execute that does not open the worldspawn entity
map_header_unopened(o) ==
    IF o.option_brush = "Doom3" THEN <<Tok("Version 2\n", <<>>, <<>>)>> ELSE <<>>

\* lines 880-889: what execute writes before the objects
map_header(o) ==
    (IF o.option_brush = "Doom3" THEN <<Tok("Version 2\n", <<>>, <<>>)>> ELSE <<>>)
    \o <<Tok("{\n\"classname\" \"worldspawn\"\n", <<>>, <<>>)>>
    \o (IF o.option_uv = "Valve"
        THEN <<Tok("\"mapversion\" \"220\"\n", <<>>, <<>>)>> ELSE <<>>)

(***************************************************************************)
(* Specification SpecRun: execute called MaxRuns times in one Blender      *)
(* session, on a scene and with options that stay the same.  execute is    *)
(* taken one call of its plan at a time.  The meshes of the scenes have    *)
(* regular faces only: every texdata call has one outcome.                 *)
(***************************************************************************)
MaxRuns == 2
MaxObjects == 2

Steps == plan(opt, scene)
Running == pc = "running" /\ item <= Len(Steps)
Cur == Steps[item]
CurObj == scene.objects[Cur.obj]

\* lines 873-923: a new call of execute; map_text is a fresh list, while
\* seen_names is an attribute of the class and keeps its value
RunBegin ==
    /\ pc \in {"idle", "finished", "raised"}
    /\ runs < MaxRuns
    /\ runs' = runs + 1
    /\ map_text' = map_header(opt)
    /\ reports' = <<>> /\ raised' = ""
    /\ item' = 1
    /\ pc' = "running"
    /\ UNCHANGED <<opt, snapVars, texVars, obj, patchVars, meshVars, scene,
                   seen_names, output, platform,
                   clipboard>>

\* lines 927, 945, 948: self.process_mesh(obj, fw, template).  When it
\* raises after line 657, the empty material slot stays on the object.
RunMesh ==
    /\ Running /\ Cur.kind = "mesh"
    /\ \E r \in process_mesh(opt, CurObj) :
          /\ map_text' = map_text \o r.text
          /\ raised' = r.raised
          /\ pc' = IF r.raised = "" THEN pc ELSE "raised"
          /\ scene' = IF r.raised # "" /\ CurObj.type \notin {"EMPTY", "CAMERA"}
                      THEN [scene EXCEPT !.objects[Cur.obj] = with_empty_slot(@)]
                      ELSE scene
    /\ item' = item + 1
    /\ UNCHANGED <<opt, snapVars, texVars, obj, patchVars, meshVars, reports,
                   seen_names, runs, output, platform,
                   clipboard>>

\* line 930: self.process_patch(obj, spline, fw)
RunPatch ==
    /\ Running /\ Cur.kind = "patch"
    /\ LET out == process_patch(opt, CurObj, CurObj.splines[Cur.arg])
       IN  /\ map_text' = map_text \o out.text
           /\ reports' = reports \o out.reports
           /\ raised' = out.raised
           /\ pc' = IF out.raised = "" THEN pc ELSE "raised"
    /\ item' = item + 1
    /\ UNCHANGED <<opt, snapVars, texVars, obj, patchVars, meshVars, scene,
                   seen_names, runs, output, platform,
                   clipboard>>

\* lines 943 and 947: fw(self.entname(col)), fw(self.entname(obj))
RunEntname ==
    /\ Running /\ Cur.kind \in {"entname_col", "entname_obj"}
    /\ LET ent == IF Cur.kind = "entname_col" THEN scene.collections[Cur.arg]
                  ELSE CurObj
           r == entname(opt, ent, seen_names)
       IN  /\ map_text' = map_text \o r.text
           /\ seen_names' = r.seen
           /\ raised' = r.raised
           /\ pc' = IF r.raised = "" THEN pc ELSE "raised"
    /\ item' = item + 1
    /\ UNCHANGED <<opt, snapVars, texVars, obj, patchVars, meshVars, reports,
                   scene, runs, output, platform,
                   clipboard>>

\* line 949
RunClose ==
    /\ Running /\ Cur.kind = "close"
    /\ map_text' = Append(map_text, Tok("}\n", <<>>, <<>>))
    /\ item' = item + 1
    /\ UNCHANGED <<opt, snapVars, texVars, obj, patchVars, meshVars, reports,
                   raised, scene, seen_names, runs, output, platform,
                   clipboard, pc>>

\* line 951: self.process_light(obj, fw)
RunLight ==
    /\ Running /\ Cur.kind = "light"
    /\ LET r == process_light(opt, CurObj, seen_names)
       IN  /\ map_text' = map_text \o r.text
           /\ seen_names' = r.seen
    /\ item' = item + 1
    /\ UNCHANGED <<opt, snapVars, texVars, obj, patchVars, meshVars, reports,
                   raised, scene, runs, output, platform,
                   clipboard, pc>>

\* line 953: self.process_empty(obj, fw)
RunEmpty ==
    /\ Running /\ Cur.kind = "empty"
    /\ LET r == process_empty(opt, CurObj)
       IN  /\ map_text' = map_text \o r.text
           /\ raised' = r.raised
           /\ pc' = IF r.raised = "" THEN pc ELSE "raised"
    /\ item' = item + 1
    /\ UNCHANGED <<opt, snapVars, texVars, obj, patchVars, meshVars, reports,
                   scene, seen_names, runs, output, platform,
                   clipboard>>

\* struct.pack('<Q', len(scene_str)) + scene_str.encode(), line 963
gtk_str(text) == [length |-> Len(text), data |-> text]

\* lines 955-984 without the assignment of line 980
deliver_without_fallback(o, plat, text, clip, ok) ==
    CASE o.option_dest = "File" ->
           [out |-> <<text>>, clip |-> clip, reps |-> <<>>]
      [] o.option_dest = "Clip" ->
           [out |-> <<text>>, clip |-> [clip EXCEPT !.text = text], reps |-> <<>>]
      [] o.option_dest = "GTK" /\ startswith(plat, <<"w", "i", "n">>) /\ ok ->
           [out |-> <<text>>, clip |-> [clip EXCEPT !.radiant = gtk_str(text)],
            reps |-> <<>>]
      [] o.option_dest = "GTK" /\ startswith(plat, <<"w", "i", "n">>) /\ ~ok ->
           [out |-> <<>>, clip |-> clip,
            reps |-> <<Report("ERROR", "Failed to export GTK clipboard", <<>>)>>]
      [] OTHER ->
           [out |-> <<>>, clip |-> clip,
            reps |-> <<Report("ERROR", "GTK export is currently Windows-only", <<>>)>>]

\* lines 955-984.  'File' writes scene_str to the file; 'Clip' and, off
\* Windows, 'GTK' put it in the text clipboard; on Windows 'GTK' fills the
\* RadiantClippings clipboard unless a call fails (ok), which is reported.
\* deliver is what happens to [out, clip, reports] for a destination.
deliver(o, plat, text, clip, ok) ==
    CASE o.option_dest = "File" ->
           [out |-> <<text>>, clip |-> clip, reps |-> <<>>]
      [] o.option_dest = "Clip" ->
           [out |-> <<text>>, clip |-> [clip EXCEPT !.text = text], reps |-> <<>>]
      [] o.option_dest = "GTK" /\ startswith(plat, <<"w", "i", "n">>) /\ ok ->
           [out |-> <<text>>, clip |-> [clip EXCEPT !.radiant = gtk_str(text)],
            reps |-> <<>>]
      [] o.option_dest = "GTK" /\ startswith(plat, <<"w", "i", "n">>) /\ ~ok ->
           [out |-> <<>>, clip |-> clip,
            reps |-> <<Report("ERROR", "Failed to export GTK clipboard", <<>>)>>]
      [] OTHER ->
           [out |-> <<text>>, clip |-> [clip EXCEPT !.text = text],
            reps |-> <<Report("ERROR", "GTK export is currently Windows-only", <<>>)>>]

RunEnd ==
    /\ pc = "running" /\ item > Len(Steps)
    /\ \E ok \in BOOLEAN :
          LET d == deliver(opt, platform, map_text, clipboard, ok)
          IN  /\ output' = output \o d.out
              /\ clipboard' = d.clip
              /\ reports' = reports \o d.reps \o
                      <<Report("INFO", "Finished exporting map", <<>>)>>
    /\ pc' = "finished"
    /\ UNCHANGED <<opt, snapVars, texVars, obj, patchVars, meshVars, map_text,
                   raised, scene, seen_names, item, runs, platform>>

\* the objects the scenes are made of
SceneLibrary ==
    LET mesh(nm) ==
            [name |-> nm, type |-> "MESH", qmap_geo_type |-> "Default",
             users_collection |-> <<"C">>, matrix_world |-> <<0, 0, 0>>,
             material_slots |-> <<[name |-> <<"m">>, has_image |-> FALSE,
                                   size |-> <<0, 0>>]>>,
             face_maps |-> <<>>,
             faces |-> <<Rect(3, 1, 0, 0, 4, 0, 4, "planar")>>]
        light(nm, t, pr) ==
            [name |-> nm, type |-> "LIGHT", qmap_geo_type |-> "Default",
             users_collection |-> <<"C">>, matrix_world |-> <<2, 0, 8>>,
             light_type |-> t, energy |-> 1000, color |-> <<1, 1, 1>>,
             shadow_soft_size |-> <<1, 4>>, spot_size |-> 1, spot_blend |-> 0,
             props |-> pr]
    IN  << mesh(<<"d", "o", "o", "r", ".", "1">>),
           mesh(<<"d", "o", "o", "r", ".", "2">>),
           light(<<"S", "p", "o", "t">>, "SPOT", <<>>),
           light(<<"L", "a", "m", "p">>, "POINT",
                 <<[key |-> "delay", value |-> 1, scalar |-> TRUE]>>),
           [name |-> <<"i", "n", "f", "o", " ", "7">>, type |-> "EMPTY",
            qmap_geo_type |-> "Default", users_collection |-> <<"C">>,
            matrix_world |-> <<0, 2, 0>>, props |-> <<>>],
           [name |-> <<"S", "u", "r", "f">>, type |-> "SURFACE",
            qmap_geo_type |-> "Default", users_collection |-> <<"C">>,
            matrix_world |-> <<0, 0, 0>>, material_slots |-> <<>>,
            face_maps |-> <<>>,
            faces |-> <<Rect(3, 1, 0, 0, 4, 0, 4, "planar")>>,
            splines |-> <<[point_count_u |-> 3, point_count_v |-> 3,
                           use_cyclic_u |-> FALSE, use_cyclic_v |-> FALSE,
                           resolution_u |-> 2, resolution_v |-> 1,
                           material_index |-> 0,
                           points |-> ControlPoints(3, 3)]>>] >>

\* a scene: up to MaxObjects different objects of the library, all of them
\* in the scene collection
Scenes ==
    { [objects |-> [i \in DOMAIN pick |-> SceneLibrary[pick[i]]],
       collections |-> <<[name |-> <<"C">>, objects |-> [i \in DOMAIN pick |-> i]]>>] :
         pick \in {p \in UNION {[1..n -> DOMAIN SceneLibrary] : n \in 1..MaxObjects} :
                      \A i, j \in DOMAIN p : i < j => p[i] < p[j]} }

InitRun ==
    /\ opt \in {[DefaultOptions EXCEPT !.option_brush = b, !.option_group = g,
                                       !.option_nurbs = n, !.option_empties = e,
                                       !.option_lights = l] :
                   b \in {"Quake", "Doom3"}, g \in {"None", "Gen", "Auto"},
                   n \in {"None", "Mesh", "Def2"}, e \in {"Point", "None"},
                   l \in {"Auto", "None"}}
    /\ scene \in Scenes
    /\ seen_names = <<>> /\ item = 0 /\ runs = 0 /\ output = <<>>
    /\ platform = <<"l", "i", "n", "u", "x">> /\ clipboard = [text |-> <<>>, radiant |-> <<>>]
    /\ map_text = <<>> /\ reports = <<>> /\ raised = ""
    /\ pc = "idle"
    /\ IdleSnap /\ IdleTex /\ IdleObj /\ IdlePatch /\ IdleMesh

NextRun ==
    \/ RunBegin \/ RunMesh \/ RunPatch \/ RunEntname \/ RunClose
    \/ RunLight \/ RunEmpty \/ RunEnd

SpecRun == InitRun /\ [][NextRun]_vars

\* C2: seen_names is reset between runs: it is empty at the start of every
\* execute call, and in every run the first entity of a class name (Doom3
\* "name" and "model" keys) and the first spotlight target have suffix 1.
C2_SeenNamesResetEachRun ==
    /\ (pc = "running" /\ item = 1) => seen_names = <<>>
    /\ \A k \in DOMAIN map_text :
          (/\ map_text[k].kind \in {"\"name\" \"tname_n\"\n",
                                    "\"target\" \"spot_target_n\"\n"}
           /\ \A j \in 1..(k - 1) :
                 ~(map_text[j].kind = map_text[k].kind
                     /\ map_text[j].name = map_text[k].name))
          => map_text[k].nums = <<1>>

\* C3: two execute runs in the same session over the same scene with the
\* same options produce the same map text.
C3_RunsProduceSameText ==
    \A i, j \in DOMAIN output : output[i] = output[j]

\* the objects whose type the options say to ignore
Ignored(ob) ==
    \/ ob.type = "SURFACE" /\ opt.option_nurbs = "None"
    \/ ob.type \in {"EMPTY", "CAMERA"} /\ opt.option_empties = "None"
    \/ ob.type = "LIGHT" /\ opt.option_lights = "None"
\* the calls of the plan that the run has made
Done == IF pc = "idle" THEN {}
        ELSE {k \in DOMAIN Steps : k < item}

\* C11: an object whose type is set to 'Ignore' (nurbs, empties or lights
\* 'None') is passed to none of process_mesh, process_patch, process_light,
\* process_empty and entname, and the run does not end by an exception.
C11_IgnoredTypesContributeNothing ==
    /\ \A k \in Done : Steps[k].obj # 0 => ~Ignored(scene.objects[Steps[k].obj])
    /\ (\A i \in DOMAIN scene.objects :
           Ignored(scene.objects[i]) \/ scene.objects[i].type = "MESH")
          => pc # "raised"

\* lines 652-685 of process_mesh(obj, fw, template) up to the first face
BrushBegin ==
    /\ pc = "brush_call"
    /\ obj' = with_empty_slot(obj)
    /\ bm' \in brush_mesh(opt, obj)
    /\ cursor' = 1
    /\ map_text' = map_text \o <<Tok(template(opt)[1], <<>>, <<>>)>>
    /\ pc' = "brush_faces"
    /\ UNCHANGED <<opt, snapVars, texVars, patchVars, bottom, emitted, reports,
                   raised, runVars>>

\* lines 681-684, one iteration of the loop over bm.faces
BrushFace ==
    /\ pc = "brush_faces" /\ cursor <= Len(bm)
    /\ cursor' = cursor + 1
    /\ \E w \in write_faces(opt, obj, <<bm[cursor]>>, faceflags(opt, bm[cursor], obj)) :
          /\ map_text' = map_text \o w.text
          /\ emitted' = emitted \o
               [k \in DOMAIN w.faces |->
                   [brush |-> 1, role |-> w.faces[k].role,
                    verts |-> w.faces[k].verts,
                    normal |-> w.faces[k].normal,
                    tex |-> w.faces[k].tex]]
          /\ raised' = w.raised
          /\ pc' = IF w.raised = "" THEN pc ELSE "raised"
    /\ UNCHANGED <<opt, snapVars, texVars, obj, patchVars, bm, bottom, reports,
                   runVars>>

\* lines 685 and 747-748: the closing template, the empty slot is removed
BrushEnd ==
    /\ pc = "brush_faces" /\ cursor > Len(bm)
    /\ map_text' = map_text \o <<Tok(template(opt)[2], <<>>, <<>>)>>
    /\ obj' = [obj EXCEPT !.material_slots = SubSeq(@, 1, Len(@) - 1)]
    /\ pc' = "returned"
    /\ UNCHANGED <<opt, snapVars, texVars, patchVars, meshVars, reports, raised,
                   runVars>>

(***************************************************************************)
(* SpecBrush: process_mesh under the Brush strategy on one convex solid    *)
(***************************************************************************)
\* a face of a solid: loop UVs by loop index, the normal of its vertices
SolidFace(vs) ==
    [verts |-> vs,
     uv |-> [i \in DOMAIN vs |-> <<<<0, 0>>, <<1, 0>>, <<1, 1>>, <<0, 1>>>>[i]],
     normal |-> calc_normal(vs),
     material_index |-> 0, face_map |-> -1, role |-> "orig"]

\* the box [0, a] x [0, b] x [0, c], every face wound outward
BoxFaces(a, b, c) ==
    << <<<<0, 0, 0>>, <<0, b, 0>>, <<a, b, 0>>, <<a, 0, 0>>>>,      \* bottom
       <<<<0, 0, c>>, <<a, 0, c>>, <<a, b, c>>, <<0, b, c>>>>,      \* top
       <<<<0, 0, 0>>, <<a, 0, 0>>, <<a, 0, c>>, <<0, 0, c>>>>,      \* y = 0
       <<<<0, b, 0>>, <<0, b, c>>, <<a, b, c>>, <<a, b, 0>>>>,      \* y = b
       <<<<0, 0, 0>>, <<0, 0, c>>, <<0, b, c>>, <<0, b, 0>>>>,      \* x = 0
       <<<<a, 0, 0>>, <<a, b, 0>>, <<a, b, c>>, <<a, 0, c>>>> >>    \* x = a

Reversed(vs) == [k \in DOMAIN vs |-> vs[Len(vs) + 1 - k]]

\* the solids, as lists of vertex loops
Solids ==
    [ box |-> BoxFaces(4, 4, 2),
      \* a box with its top wound inward
      mixed |-> [i \in 1..6 |-> IF i = 2 THEN Reversed(BoxFaces(4, 4, 2)[i])
                                ELSE BoxFaces(4, 4, 2)[i]],
      \* a box whose top is two triangles
      tris |-> <<BoxFaces(4, 4, 2)[1]>>
               \o << <<<<0, 0, 2>>, <<4, 0, 2>>, <<4, 4, 2>>>>,
                     <<<<0, 0, 2>>, <<4, 4, 2>>, <<0, 4, 2>>>> >>
               \o SubSeq(BoxFaces(4, 4, 2), 3, 6),
      \* a box with a triangle inside
      inner |-> BoxFaces(8, 8, 8)
                \o << <<<<4, 4, 4>>, <<6, 4, 4>>, <<4, 6, 4>>>> >>,
      tetra |-> << <<<<0, 0, 0>>, <<0, 4, 0>>, <<4, 0, 0>>>>,
                   <<<<0, 0, 0>>, <<4, 0, 0>>, <<0, 0, 4>>>>,
                   <<<<0, 0, 0>>, <<0, 0, 4>>, <<0, 4, 0>>>>,
                   <<<<4, 0, 0>>, <<0, 4, 0>>, <<0, 0, 4>>>> >>,
      \* a prism under the slanted quad z = (x + y) / 2
      slant |-> << <<<<0, 0, -2>>, <<0, 2, -2>>, <<2, 2, -2>>, <<2, 0, -2>>>>,
                   <<<<0, 0, 0>>, <<2, 0, 1>>, <<2, 2, 2>>, <<0, 2, 1>>>>,
                   <<<<0, 0, -2>>, <<2, 0, -2>>, <<2, 0, 1>>, <<0, 0, 0>>>>,
                   <<<<0, 2, -2>>, <<0, 2, 1>>, <<2, 2, 2>>, <<2, 2, -2>>>>,
                   <<<<0, 0, -2>>, <<0, 0, 0>>, <<0, 2, 1>>, <<0, 2, -2>>>>,
                   <<<<2, 0, -2>>, <<2, 2, -2>>, <<2, 2, 2>>, <<2, 0, 1>>>> >> ]

BrushObjects ==
    { [name |-> <<"o", "b">>, users_collection |-> <<"c">>,
       qmap_geo_type |-> gt, matrix_world |-> place,
       material_slots |-> <<[name |-> <<"m">>, has_image |-> FALSE,
                             size |-> <<0, 0>>]>>,
       face_maps |-> <<>>,
       faces |-> [i \in DOMAIN Solids[s] |-> SolidFace(Solids[s][i])]] :
         s \in DOMAIN Solids, place \in {<<0, 0, 0>>, <<2, 0, -2>>},
         gt \in {"Default", "Brush"} }

InitBrush ==
    /\ opt \in {[DefaultOptions EXCEPT !.option_geo = "Brush", !.option_grid = gr,
                                       !.option_brush = b, !.option_uv = u] :
                   gr \in {0, 2}, b \in {"Quake", "Doom3"},
                   u \in {"Valve", "Quake", "BPrim"}}
    /\ obj \in BrushObjects
    /\ pc = "brush_call"
    /\ IdleSnap /\ IdleTex /\ IdlePatch /\ IdleMesh /\ IdleOut /\ IdleExec

NextBrush == BrushBegin \/ BrushFace \/ BrushEnd

SpecBrush == InitBrush /\ [][NextBrush]_vars

\* the meshes are in the domain of the operators above: snapping merges no
\* two vertices, and a hull triangle has its vertices on one face that
\* convex_hull keeps, or on such faces lying in the plane of the triangle
HullCovered ==
    pc = "brush_call" =>
        LET mesh == working_mesh(opt, obj)
            kept == convex_hull(mesh)
            P == hull_verts(mesh)
            in_plane(f, a, b, c) ==
                \A j \in DOMAIN f.verts :
                    Dot(Cross(Sub(b, a), Sub(c, a)), Sub(f.verts[j], a)) = 0
        IN  /\ Cardinality(P)
                  = Cardinality(hull_verts(working_mesh_unsnapped(opt, obj)))
            /\ \A a, b, c \in P :
                  supporting(a, b, c, P) =>
                      \/ \E i \in DOMAIN kept :
                            {a, b, c} \subseteq
                                {kept[i].verts[j] : j \in DOMAIN kept[i].verts}
                      \/ \A q \in {a, b, c} :
                          \E i \in DOMAIN kept :
                              /\ in_plane(kept[i], a, b, c)
                              /\ \E j \in DOMAIN kept[i].verts : kept[i].verts[j] = q

\* the tokens of map_text of one kind
TokensOf(kind) == {k \in DOMAIN map_text : map_text[k].kind = kind}
Opening == template(opt)[1]
Closing == template(opt)[2]

\* C12: under the Brush strategy process_mesh writes one brush block for the
\* object: once it has returned, the text is the opening template (once),
\* then for each face left in bm its plane and its texture line, then the
\* closing template (once), whatever the number of faces.
C12_OneBrushBlockPerObject ==
    pc = "returned" =>
        /\ Len(map_text) = 2 * Len(bm) + 2
        /\ TokensOf(Opening) = {1}
        /\ TokensOf(Closing) = {Len(map_text)}
        /\ \A i \in DOMAIN bm :
              /\ map_text[2 * i] = brushplane(opt, bm[i])
              /\ map_text[2 * i + 1].kind = "texdata flags\n"
        /\ raised = ""

\* a brush of seven planes has been written whole
C12_Witness == pc = "returned" /\ Len(bm) = 7 /\ Len(obj.faces) = 6

\* the planes written to map_text, and the vertices of the brush
Planes == TokensOf("( v ) ( v ) ( v ) ") \cup TokensOf("( normal dist ) ")
BrushVerts == hull_verts(bm)

\* vertex q is on or behind the plane of token t.  Three points p0 p1 p2
\* bound the half-space whose outward normal is (p0 - p1) x (p2 - p1); the
\* plane ( a b c d ) bounds a*x + b*y + c*z + d <= 0.
Behind(q, t) ==
    IF t.kind = "( v ) ( v ) ( v ) "
    THEN LET p0 == SubSeq(t.nums, 1, 3)
             p1 == SubSeq(t.nums, 4, 6)
             p2 == SubSeq(t.nums, 7, 9)
         IN  Dot(Cross(Sub(p0, p1), Sub(p2, p1)), Sub(q, p1)) <= 0
    ELSE Dot(SubSeq(t.nums, 1, 3), q) + t.nums[4] <= 0

\* the snap of line 667 moves no vertex of the object
SnapMovesNothing == working_mesh(opt, obj) = working_mesh_unsnapped(opt, obj)

BrushOf(c) == SelectSeq(emitted, LAMBDA e : e.brush = c)

\* the point at distance d from the plane of rectangle f, under its centre
\* on the side its normal points away from (the normals of the rectangles
\* are unit vectors)
UnderCentre(f, d) ==
    CHOOSE p \in {[k \in 1..3 |-> (f.verts[1][k] + f.verts[3][k]) \div 2 + s * d]
                     : s \in {-1, 0, 1}} \cup
                 {Sub([k \in 1..3 |-> (f.verts[1][k] + f.verts[3][k]) \div 2],
                      Scale(d, f.normal))} :
        /\ Dot(f.normal, Sub(p, f.verts[1])) = -d
        /\ IsZero(Cross(Sub(Scale(4, p),
                            Add(Add(f.verts[1], f.verts[2]),
                                Add(f.verts[3], f.verts[4]))),
                        f.normal))

\* C13: under the Faces strategy a (non-degenerate) rectangular face with
\* depth d yields one brush of exactly 5 faces, the original face first and
\* then the 4 pyramid sides; the apex of every side is the grid-snapped
\* image of the point at distance d from the face's plane under its centre.
C13_FacesPyramidHasFiveFaces ==
    GeoType = "Faces" =>
        \A c \in DOMAIN bm :
            (c < cursor /\ ~area_is_negligible(bm[c])) =>
                LET b == BrushOf(c)
                IN  /\ Len(b) = 5
                    /\ b[1].role = "orig" /\ b[1].verts = bm[c].verts
                    /\ \A k \in 2..5 :
                          /\ b[k].role = "side"
                          /\ b[k].verts[2] =
                               gridsnap(opt, UnderCentre(bm[c], opt.option_depth))

\* C13 where texdata raises nothing
C13_FiveFacesUnlessRaised ==
    (raised = "") => C13_FacesPyramidHasFiveFaces

(***************************************************************************)
(* SpecDest: execute on one object, for every destination and platform     *)
(***************************************************************************)
Platforms == {<<"l", "i", "n", "u", "x">>, <<"d", "a", "r", "w", "i", "n">>,
              <<"w", "i", "n", "3", "2">>}

InitDest ==
    /\ opt \in {[DefaultOptions EXCEPT !.option_dest = d, !.option_nurbs = n] :
                   d \in {"File", "Clip", "GTK"}, n \in {"Mesh", "Def2"}}
    /\ scene \in {[objects |-> <<SceneLibrary[i]>>,
                   collections |-> <<[name |-> <<"C">>, objects |-> <<1>>]>>] :
                     i \in DOMAIN SceneLibrary}
    /\ platform \in Platforms
    /\ clipboard = [text |-> <<>>, radiant |-> <<>>]
    /\ seen_names = <<>> /\ item = 0 /\ runs = 0 /\ output = <<>>
    /\ map_text = <<>> /\ reports = <<>> /\ raised = ""
    /\ pc = "idle"
    /\ IdleSnap /\ IdleTex /\ IdleObj /\ IdlePatch /\ IdleMesh

SpecDest == InitDest /\ [][NextRun]_vars

OffWindows == ~startswith(platform, <<"w", "i", "n">>)

\* C14: with the GTK destination on a platform without the Windows
\* clipboard, execute reports an ERROR, stores the full map text in the text
\* clipboard and completes with FINISHED; no exception escapes.
C14_GTKFallsBackToTextClipboard ==
    (pc = "finished" /\ opt.option_dest = "GTK" /\ OffWindows) =>
        /\ raised = ""
        /\ clipboard.text = map_text
        /\ Len(reports) >= 2
        /\ reports[Len(reports) - 1] =
               Report("ERROR", "GTK export is currently Windows-only", <<>>)
        /\ reports[Len(reports)].level = "INFO"

\* a map with text in it went to the text clipboard by the GTK destination
C14_Witness ==
    /\ pc = "finished" /\ opt.option_dest = "GTK" /\ OffWindows
    /\ map_text # <<>> /\ clipboard.text = map_text

(***************************************************************************)
(* SpecFlags: process_mesh on objects, collections and face maps of        *)
(* various names, with the Quake 2 flags                                   *)
(***************************************************************************)
ObjectNames == {<<"o", "b">>, <<"D", "e", "t", "a", "i", "l", "1">>,
                <<"s", "i", "d", "e">>}
CollectionNames == {<<"c">>, <<"t", "a", "i", "l">>,
                    <<"m", "y", "d", "e", "t", "a", "i", "l", "s">>}
FaceMapLists == {<<>>, <<<<"f", "m">>>>, <<<<"d", "e", "T", "A", "I", "L">>>>}

FlagObjects ==
    { [name |-> nm, users_collection |-> col,
       qmap_geo_type |-> "Default", matrix_world |-> <<0, 0, 0>>,
       material_slots |-> <<[name |-> <<"m">>, has_image |-> FALSE,
                             size |-> <<0, 0>>]>>,
       face_maps |-> fms,
       faces |-> <<[Rect(3, 1, 0, 0, 4, 0, 4, "planar") EXCEPT !.face_map = fm]>>] :
         nm \in ObjectNames, col \in CollectionNames, fms \in FaceMapLists,
         fm \in {-1, 0} }

InitFlags ==
    /\ opt \in {[DefaultOptions EXCEPT !.option_geo = g, !.option_flags = fl,
                                       !.option_uv = "Quake"] :
                   g \in {"Faces", "Prisms"}, fl \in {"None", "Q2"}}
    /\ obj \in {ob \in FlagObjects :
                   ob.faces[1].face_map < Len(ob.face_maps)}
    /\ pc = "call"
    /\ IdleSnap /\ IdleTex /\ IdlePatch /\ IdleMesh /\ IdleOut /\ IdleExec

SpecFlags == InitFlags /\ [][NextMesh]_vars

Detail == <<"d", "e", "t", "a", "i", "l">>
FaceLines == SelectSeq(map_text, LAMBDA t : t.kind = "texdata flags\n")

\* the name of the face map of face f, '' for an object without face maps,
\* and the flags at the end of a face line
FaceMapName(f) ==
    IF obj.face_maps = <<>> THEN <<>>
    ELSE IF f.face_map >= 0 THEN obj.face_maps[f.face_map + 1]
    ELSE <<"M", "a", "p">>
FlagsOf(t) == SubSeq(t.nums, Len(t.nums) - 2, Len(t.nums))

\* C15: with the Q2 flags a face line ends with ' 134217728 0 0' exactly
\* when the name of the object, of its first collection or of the face's
\* face map, taken one by one, contains 'detail' in any case; with ' 0 0 0'
\* otherwise.
C15_DetailIffANameHasDetail ==
    opt.option_flags = "Q2" =>
        \A k \in DOMAIN FaceLines :
            LET f == bm[emitted[k].brush]
                named == \/ contains(lower(obj.name), Detail)
                         \/ contains(lower(obj.users_collection), Detail)
                         \/ contains(lower(FaceMapName(f)), Detail)
            IN  FlagsOf(FaceLines[k]) = IF named THEN <<134217728, 0, 0>>
                                        ELSE <<0, 0, 0>>

(***************************************************************************)
(* SpecNames: execute with grouping 'Auto' on one object, for objects of   *)
(* every type and various names                                            *)
(***************************************************************************)
EntityNames == {<<"w", "a", "l", "l">>,
                <<"d", "o", "o", "r", ".", "0", "0", "1">>,
                <<"i", "n", "f", "o", " ", "7">>,
                <<"l", "i", "g", "h", "t", "1">>,
                <<"c", "r", "a", "t", "e", ".">>,
                <<"4", "2">>}

InitNames ==
    /\ opt \in {[DefaultOptions EXCEPT !.option_group = "Auto", !.option_brush = b,
                                       !.option_nurbs = n] :
                   b \in {"Quake", "Doom3"}, n \in {"Mesh", "Def2"}}
    /\ scene \in {[objects |-> <<[SceneLibrary[i] EXCEPT !.name = nm]>>,
                   collections |-> <<[name |-> <<"C">>, objects |-> <<1>>]>>] :
                     i \in DOMAIN SceneLibrary, nm \in EntityNames}
    /\ platform = <<"l", "i", "n", "u", "x">>
    /\ clipboard = [text |-> <<>>, radiant |-> <<>>]
    /\ seen_names = <<>> /\ item = 0 /\ runs = 0 /\ output = <<>>
    /\ map_text = <<>> /\ reports = <<>> /\ raised = ""
    /\ pc = "idle"
    /\ IdleSnap /\ IdleTex /\ IdleObj /\ IdlePatch /\ IdleMesh

SpecNames == InitNames /\ [][NextRun]_vars

\* a name without its trailing run of digits and without the '.' or ' '
\* before it
Stripped(name) ==
    LET t == rstrip_digits(name)
    IN  IF t # <<>> /\ t[Len(t)] \in {".", " "} THEN SubSeq(t, 1, Len(t) - 1)
        ELSE t

\* C16: with grouping 'Auto', and for point entities, entname and
\* process_empty return without error for every non-empty name, and the
\* classname they write is the name without its trailing run of digits and
\* without the '.' or ' ' that separates it.
C16_ClassnameIsNameWithoutNumber ==
    /\ pc # "raised"
    /\ \A k \in DOMAIN map_text :
          map_text[k].kind \in {"}\n{\n\"classname\" \"tname\"\n",
                                "{\n\"classname\" \"name\"\n"}
             => map_text[k].name = Stripped(scene.objects[1].name)

\* C16 without the names that are digits only: no error
C16_NoErrorUnlessAllDigits ==
    rstrip_digits(scene.objects[1].name) # <<>> => pc # "raised"

(***************************************************************************)
(* SpecUV: texdata called on one triangle, axis-aligned or slanted, with   *)
(* regular and degenerate UVs                                              *)
(***************************************************************************)
MaxUVCoord == 2

UVPoints == {v \in [1..3 -> 0..MaxUVCoord] : v[1] + v[2] + v[3] <= MaxUVCoord + 1}
UVTriples == { <<<<0, 0>>, <<1, 0>>, <<0, 1>>>>,
               <<<<0, 0>>, <<0, 1>>, <<1, 0>>>>,      \* mirrored
               <<<<1, 2>>, <<2, 3>>, <<0, 3>>>>,      \* turned and scaled
               <<<<0, 1>>, <<2, 1>>, <<1, 1>>>> }     \* colinear
UVObjects ==
    { [material_slots |-> <<>>],
      [material_slots |-> <<[name |-> <<"m">>, has_image |-> TRUE,
                             size |-> <<2, 1>>]>>] }

UVFaces ==
    { [verts |-> <<v0, v1, v2>>,
       normal |-> Scale(s, Cross(Sub(v1, v0), Sub(v2, v0))),
       uv |-> t, material_index |-> 0, obj |-> ob] :
         v0 \in {<<0, 0, 0>>, <<1, 0, 1>>}, v1 \in UVPoints, v2 \in UVPoints,
         s \in {-1, 1}, t \in UVTriples, ob \in UVObjects }

InitUV ==
    /\ opt \in {[DefaultOptions EXCEPT !.option_uv = u, !.option_size = 1] :
                   u \in {"Valve", "Quake", "BPrim"}}
    /\ face \in UVFaces
    /\ texresult = <<>>
    /\ IdleSnap /\ IdleRun

SpecUV == InitUV /\ [][NextTex]_vars

\* the reference triangle and its UV triangle have an area
UVColinear(f) ==
    (f.uv[2][1] - f.uv[1][1]) * (f.uv[3][2] - f.uv[1][2])
        = (f.uv[3][1] - f.uv[1][1]) * (f.uv[2][2] - f.uv[1][2])
NonDegenerate(f) == ~Colinear(f) /\ ~UVColinear(f)

\* the basis of result r, applied to the three reference vertices of face
\* f, gives back their UVs
RoundTrip(r, f) ==
    LET wh == texsize(opt, f.obj, f)
        rel(i) == Sub(f.verts[i], f.verts[1])
        axis == closest_axis(f.normal)
        n == [i \in 1..3 |-> Sign(f.normal[i])]
    IN  CASE r.fmt = "Valve" ->
               \A i \in 1..3 :
                   Valve_maps(r, rel(i),
                              <<(f.uv[i][1] - f.uv[1][1]) * wh[1],
                                (f.uv[i][2] - f.uv[1][2]) * (-wh[2])>>)
          [] r.fmt = "Quake" ->
               \A i \in 1..3 : \A sgn \in Quake_scale_signs(r) :
                   Quake_maps(r, sgn, DropAxis(rel(i), axis),
                              <<(f.uv[i][1] - f.uv[1][1]) * wh[1],
                                (f.uv[i][2] - f.uv[1][2]) * wh[2]>>)
          [] r.fmt = "BPrim" ->
               r.nums # <<>> =>
                   \A i \in 1..3 : BPrim_maps(r, BPrim_B(n, f.verts[i]), f.uv[i])

QuakeRepresentable(r) ==
    /\ r.nums[1] * r.nums[3] + r.nums[2] * r.nums[4] = 0
    /\ r.nums[1] * r.nums[4] - r.nums[2] * r.nums[3] > 0

Accepted ==
    /\ spline_nu % 2 = 1 /\ spline_nu > 1
    /\ spline_nv % 2 = 1 /\ spline_nv > 1

HeaderLen == 3

\* where row i (from 0) starts in map_text, and its p-th point (from 1)
RowStart(i) == HeaderLen + i * (spline_nv + 2) + 1
PointAt(i, p) == map_text[RowStart(i) + p]

\* the sampled index and the texture row and column of a point token
IndexOf(t) == t.nums[8]
RowOf(t) == t.nums[4]
ColumnOf(t) == -t.nums[6]

PatchWritten ==
    /\ Len(map_text) = HeaderLen + spline_nu * (spline_nv + 2) + 1
    /\ SubSeq(map_text[HeaderLen].nums, 1, 2) = <<spline_nu, spline_nv>>
    /\ \A i \in 0..(spline_nu - 1) :
        /\ map_text[RowStart(i)].kind = "( "
        /\ map_text[RowStart(i) + spline_nv + 1].kind = ")\n"
        /\ \A p \in 1..spline_nv :
            /\ PointAt(i, p).kind = "( xyz uv ) "
            /\ RowOf(PointAt(i, p)) = i
            /\ ColumnOf(PointAt(i, p)) = spline_nv - p
            /\ IndexOf(PointAt(i, p)) \in
                   0..(spline.point_count_u * spline.point_count_v - 1)
    /\ spline.use_cyclic_u =>
           \A p \in 1..spline_nv :
               /\ IndexOf(PointAt(spline_nu - 1, p)) = IndexOf(PointAt(0, p))
               /\ SubSeq(PointAt(spline_nu - 1, p).nums, 1, 3)
                      = SubSeq(PointAt(0, p).nums, 1, 3)
    /\ spline.use_cyclic_v =>
           \A i \in 0..(spline_nu - 1) :
               /\ IndexOf(PointAt(i, 1)) = IndexOf(PointAt(i, spline_nv))
               /\ SubSeq(PointAt(i, 1).nums, 1, 3)
                      = SubSeq(PointAt(i, spline_nv).nums, 1, 3)

\* C19: for every accepted spline (nu, nv odd and > 1) process_patch emits
\* exactly nu rows of nv control points, as declared in the patch header,
\* rows in ascending i and the points of a row in descending j; every
\* sampled index is in [0, wu*wv); on a wrapped axis the extra last row or
\* column samples the control points of the first one.
C19_RowsOfAcceptedSpline ==
    (pc # "call" /\ Accepted) => (pc = "returned" /\ PatchWritten)

\* the same for the calls that apply the transform
C19_RowsWhenTransformApplied ==
    (pc # "call" /\ Accepted /\ opt.option_tm) => (pc = "returned" /\ PatchWritten)

\* C20: for an accepted spline, with 'Apply transform' disabled each control
\* point is emitted at its untransformed position times the scale factor,
\* grid-snapped, with it enabled at the world-transformed position, scaled
\* and snapped; in both settings the patch block is written without error.
C20_TransformIsOptional ==
    (pc # "call" /\ Accepted) =>
        /\ pc = "returned" /\ raised = ""
        /\ Len(map_text) = HeaderLen + spline_nu * (spline_nv + 2) + 1
        /\ map_text[Len(map_text)].kind = ")\n}\n}\n"
        /\ \A i \in 0..(spline_nu - 1) : \A p \in 1..spline_nv :
               LET co == SubSeq(spline.points[IndexOf(PointAt(i, p)) + 1], 1, 3)
                   at == IF opt.option_tm THEN world_transform(obj, co) ELSE co
               IN  SubSeq(PointAt(i, p).nums, 1, 3)
                       = gridsnap(opt, Scale(opt.option_scale, at))

\* the same for the calls that apply the transform
C20_TransformedWhenApplied ==
    (pc # "call" /\ Accepted /\ opt.option_tm) =>
        /\ pc = "returned" /\ raised = ""
        /\ map_text[Len(map_text)].kind = ")\n}\n}\n"
        /\ \A i \in 0..(spline_nu - 1) : \A p \in 1..spline_nv :
               LET co == SubSeq(spline.points[IndexOf(PointAt(i, p)) + 1], 1, 3)
               IN  SubSeq(PointAt(i, p).nums, 1, 3)
                       = gridsnap(opt, Scale(opt.option_scale,
                                             world_transform(obj, co)))

(***************************************************************************)
(* SpecAxis: the projection axis of the Standard format, lines 535-540,    *)
(* with the rounding of the normal.  A component of the normal is a number *)
(* of quarters (floats hold these exactly, so that round() meets exact     *)
(* ties), a rounded component a number of 10^-option_fp.                   *)
(***************************************************************************)
NormalDen == 4
MaxNormal == 5
MaxFp == 2

\* a round() that takes ties upwards
round_ndigits_half_up(c, fp) == (2 * c * 10^fp + NormalDen) \div (2 * NormalDen)

\* round(co, self.option_fp) of co = c/4: correctly rounded, ties to even
round_ndigits(c, fp) == round(c * 10^fp, NormalDen)

\* lines 536-540: 0 when the loop ends without assigning axis (line 541 then
\* raises UnboundLocalError), else the position of the axis, z = 3, x = 1,
\* y = 2
projection_axis(o, n) ==
    LET fp == o.option_fp
        maxn == CHOOSE mx \in {Abs(round_ndigits(n[i], fp)) : i \in 1..3} :
                    \A i \in 1..3 : Abs(round_ndigits(n[i], fp)) <= mx
        hit(i) == round_ndigits(Abs(n[i]), fp) = maxn
    IN  IF hit(3) THEN 3 ELSE IF hit(1) THEN 1 ELSE IF hit(2) THEN 2 ELSE 0

AxisNormals == [1..3 -> (-MaxNormal)..MaxNormal]

InitAxis ==
    /\ opt \in {[DefaultOptions EXCEPT !.option_uv = "Quake", !.option_fp = fp] :
                   fp \in 0..MaxFp}
    /\ face \in {[verts |-> <<>>, normal |-> n] : n \in AxisNormals}
    /\ texresult = <<>>
    /\ IdleSnap /\ IdleRun

\* texdata, Standard format, up to line 540
PickAxis ==
    /\ texresult = <<>>
    /\ LET a == projection_axis(opt, face.normal)
       IN  texresult' = <<[kind |-> "axis", axis |-> a,
                           raised |-> IF a = 0 THEN "UnboundLocalError" ELSE ""]>>
    /\ UNCHANGED <<opt, face, snapVars, obj, patchVars, meshVars, outVars,
                   runVars, pc>>

NextAxis == PickAxis

SpecAxis == InitAxis /\ [][NextAxis]_vars

\* the magnitude of component i of the face normal, rounded to the precision
RoundedMagnitude(i) == Abs(round_ndigits(face.normal[i], opt.option_fp))

\* C21: in the Standard format the dropped projection axis is always defined
\* and is the axis whose normal component has the largest magnitude after
\* rounding to the precision, ties going to Z, then X, then Y, for every
\* normal and every precision >= 0.
C21_AxisIsLargestRoundedComponent ==
    texresult # <<>> =>
        LET a == texresult[1].axis
        IN  /\ a \in 1..3 /\ texresult[1].raised = ""
            /\ \A i \in 1..3 : RoundedMagnitude(i) <= RoundedMagnitude(a)
            /\ a = 1 => RoundedMagnitude(3) < RoundedMagnitude(1)
            /\ a = 2 => /\ RoundedMagnitude(3) < RoundedMagnitude(2)
                        /\ RoundedMagnitude(1) < RoundedMagnitude(2)

\* X was picked before Y for a normal whose Y component is the larger one
\* before the rounding and whose X component is negative, e.g.
\* (-3/4, 5/4, 0) at precision 0
C21_Witness ==
    /\ texresult # <<>> /\ texresult[1].axis = 1
    /\ face.normal[1] < 0
    /\ Abs(face.normal[2]) > Abs(face.normal[1])
    /\ RoundedMagnitude(2) = RoundedMagnitude(1)

(***************************************************************************)
(* SpecLinks: execute on scenes with three collections, the scene          *)
(* collection and two of bpy.data.collections.  A mesh object is linked to *)
(* one or several of them; users_collection[0] is any of those.            *)
(***************************************************************************)
LinkCollections == << <<"M">>, worldspawn, <<"g">> >>

LinkLibrary ==
    << [SceneLibrary[1] EXCEPT !.name = <<"d", "o", "o", "r", ".", "1">>],
       [SceneLibrary[1] EXCEPT !.name = worldspawn \o <<".", "1">>],
       [name |-> <<"b">>, type |-> "MESH", qmap_geo_type |-> "Brush",
        users_collection |-> <<"M">>, matrix_world |-> <<0, 0, 0>>,
        material_slots |-> <<[name |-> <<"m">>, has_image |-> FALSE,
                              size |-> <<0, 0>>]>>,
        face_maps |-> <<>>,
        faces |-> [i \in DOMAIN Solids.box |-> SolidFace(Solids.box[i])]],
       SceneLibrary[3], SceneLibrary[5], SceneLibrary[6] >>

\* the collections an object of the library may be linked to
LinkSets(k) ==
    IF LinkLibrary[k].type = "MESH"
    THEN (SUBSET DOMAIN LinkCollections) \ {{}}
    ELSE {{1}}

LinkedScene(pick, link, first) ==
    [objects |-> [i \in DOMAIN pick |->
                     [LinkLibrary[pick[i]] EXCEPT
                         !.users_collection = LinkCollections[first[i]]]],
     collections |-> [c \in DOMAIN LinkCollections |->
                         [name |-> LinkCollections[c],
                          objects |-> SelectSeq([i \in DOMAIN pick |-> i],
                                                LAMBDA i : c \in link[i])]]]

\* n different objects of the library, each with its links
LinkedScenesOf(n) ==
    UNION { UNION { { LinkedScene(pick, link, first) :
                        first \in {f \in [1..n -> DOMAIN LinkCollections] :
                                      \A i \in 1..n : f[i] \in link[i]} } :
                      link \in {l \in [1..n -> SUBSET DOMAIN LinkCollections] :
                                   \A i \in 1..n : l[i] \in LinkSets(pick[i])} } :
            pick \in {p \in [1..n -> DOMAIN LinkLibrary] :
                         \A i, j \in 1..n : i < j => p[i] < p[j]} }

LinkedScenes == UNION {LinkedScenesOf(n) : n \in 1..MaxObjects}

InitLinks ==
    /\ opt \in {[DefaultOptions EXCEPT !.option_group = g, !.option_nurbs = "Def2",
                                       !.option_brush = b] :
                   g \in {"None", "Gen", "Auto"}, b \in {"Quake", "Doom3"}}
    /\ scene \in LinkedScenes
    /\ platform = <<"l", "i", "n", "u", "x">>
    /\ clipboard = [text |-> <<>>, radiant |-> <<>>]
    /\ seen_names = <<>> /\ item = 0 /\ runs = 0 /\ output = <<>>
    /\ map_text = <<>> /\ reports = <<>> /\ raised = ""
    /\ pc = "idle"
    /\ IdleSnap /\ IdleTex /\ IdleObj /\ IdlePatch /\ IdleMesh

SpecLinks == InitLinks /\ [][NextRun]_vars

\* the collections object i is linked to
LinksOf(i) ==
    {c \in DOMAIN scene.collections :
        \E n \in DOMAIN scene.collections[c].objects :
            scene.collections[c].objects[n] = i}

\* the process_mesh calls of the run on object i
MeshCalls(i) == {k \in DOMAIN Steps : Steps[k].kind = "mesh" /\ Steps[k].obj = i}

\* object i is sorted into wspwn_objs or bmodel_objs
IsGeometry(i) == sort_object(opt, scene.objects[i]) \in {"wspwn", "bmodel"}

\* C22: every exportable mesh object of the run is processed exactly once:
\* whatever the collections the objects are linked to, several for one
\* object included, and whatever the grouping option, a finished run has
\* called process_mesh exactly once on every object sorted as worldspawn or
\* brush-entity geometry.
C22_EachMeshProcessedOnce ==
    pc = "finished" =>
        \A i \in DOMAIN scene.objects :
            IsGeometry(i) => Cardinality(MeshCalls(i) \cap Done) = 1

\* what the run does instead: one call for a worldspawn object, one call per
\* collection for a brush-entity object
C22_OncePerLinkedCollection ==
    pc = "finished" =>
        \A i \in DOMAIN scene.objects :
            IsGeometry(i) =>
                Cardinality(MeshCalls(i) \cap Done) =
                    IF sort_object(opt, scene.objects[i]) = "wspwn" THEN 1
                    ELSE Cardinality(LinksOf(i))

(***************************************************************************)
(* The material slots of the object (SpecMesh)                             *)
(***************************************************************************)
\* process_mesh has ended, by its last line or by an exception
MeshCallOver == pc \in {"returned", "raised"}

\* The objects of MeshObjects differ in their placement and their faces,
\* which process_mesh leaves alone, and all have the same slot list: obj is
\* one of them exactly when its slot list is the one it had before the call.
SlotsAsBefore == obj \in MeshObjects

\* C23: the object's material table is not changed by an export: after
\* process_mesh ends for an object, on every exit path, a failure while
\* processing a face included, the object's material slot list is identical
\* to the one before the call.
C23_MaterialSlotsUnchanged == MeshCallOver => SlotsAsBefore

\* what holds instead: the slots are as before after a return, and have the
\* empty slot of line 657 at their end after an exception
C23_SlotsRestoredOnReturnOnly ==
    /\ pc = "returned" => SlotsAsBefore
    /\ pc = "raised" =>
          /\ obj.material_slots[Len(obj.material_slots)] = EmptySlot
          /\ [obj EXCEPT !.material_slots = SubSeq(@, 1, Len(@) - 1)]
                 \in MeshObjects

(***************************************************************************)
(* SpecBraces: execute on scenes that mix worldspawn objects, brush        *)
(* entities made from an object and from a collection, an object linked to *)
(* two collections, an accepted and a skipped patch, a light and an empty  *)
(***************************************************************************)
BraceLibrary ==
    << LinkLibrary[1], LinkLibrary[2], LinkLibrary[3],
       SceneLibrary[3], SceneLibrary[5], SceneLibrary[6],
       [SceneLibrary[6] EXCEPT
           !.name = <<"E", "v", "e", "n">>,
           !.splines = <<[point_count_u |-> 2, point_count_v |-> 3,
                          use_cyclic_u |-> FALSE, use_cyclic_v |-> FALSE,
                          resolution_u |-> 2, resolution_v |-> 1,
                          material_index |-> 0,
                          points |-> ControlPoints(2, 3)]>>] >>

\* the collections of LinkCollections each object of the library is linked to
BraceLinks == << {1, 3}, {2}, {3}, {1}, {1}, {1}, {1} >>

BraceScenes ==
    { [objects |-> [i \in DOMAIN pick |->
                       [BraceLibrary[pick[i]] EXCEPT !.users_collection =
                           LinkCollections[CHOOSE c \in BraceLinks[pick[i]] :
                               \A d \in BraceLinks[pick[i]] : c <= d]]],
       collections |-> [c \in DOMAIN LinkCollections |->
                           [name |-> LinkCollections[c],
                            objects |-> SelectSeq([i \in DOMAIN pick |-> i],
                                           LAMBDA i : c \in BraceLinks[pick[i]])]]] :
         pick \in {p \in UNION {[1..n -> DOMAIN BraceLibrary] : n \in 1..MaxObjects} :
                      \A i, j \in DOMAIN p : i < j => p[i] < p[j]} }

InitBraces ==
    /\ opt \in {[DefaultOptions EXCEPT !.option_group = g, !.option_nurbs = "Def2",
                                       !.option_brush = b, !.option_uv = u] :
                   g \in {"None", "Gen", "Auto"}, b \in {"Quake", "Doom3"},
                   u \in {"Valve", "BPrim"}}
    /\ scene \in BraceScenes
    /\ platform = <<"l", "i", "n", "u", "x">>
    /\ clipboard = [text |-> <<>>, radiant |-> <<>>]
    /\ seen_names = <<>> /\ item = 0 /\ runs = 0 /\ output = <<>>
    /\ map_text = <<>> /\ reports = <<>> /\ raised = ""
    /\ pc = "idle"
    /\ IdleSnap /\ IdleTex /\ IdleObj /\ IdlePatch /\ IdleMesh

SpecBraces == InitBraces /\ [][NextRun]_vars

\* the braces of a piece of the text, in order: 1 for '{', -1 for '}'.  (The
\* names the text holds, of materials, classes and properties, are not
\* scanned: a map parser reads them as tokens of their own.)
Braces(kind) ==
    CASE kind \in {"{\nbrushDef3\n{\n", "{\nbrushDef\n{\n", "{\npatch"} -> <<1, 1>>
      [] kind \in {"{\n", "{\n\"classname\" \"light\"\n",
                   "{\n\"classname\" \"name\"\n",
                   "{\n\"classname\" \"worldspawn\"\n"} -> <<1>>
      [] kind = "}\n" -> <<-1>>
      [] kind \in {"}\n}\n", ")\n}\n}\n"} -> <<-1, -1>>
      [] kind \in {"}\n{\n", "}\n{\n\"classname\" \"tname\"\n"} -> <<-1, 1>>
      [] OTHER -> <<>>

\* the depth after the braces of a piece that starts at depth d, and the
\* lowest and the highest depth on the way
Net(kind) ==
    LET bs == Braces(kind)
    IN  IF bs = <<>> THEN 0 ELSE IF Len(bs) = 1 THEN bs[1] ELSE bs[1] + bs[2]
Lowest(kind) ==
    LET bs == Braces(kind)
    IN  IF bs = <<>> THEN 0 ELSE IF bs[1] < Net(kind) THEN bs[1] ELSE Net(kind)
Highest(kind) ==
    LET bs == Braces(kind)
    IN  IF bs = <<>> THEN 0 ELSE IF bs[1] > Net(kind) THEN bs[1] ELSE Net(kind)

\* the nesting depth after the first k pieces of map_text
RECURSIVE DepthAfter(_)
DepthAfter(k) ==
    IF k = 0 THEN 0 ELSE DepthAfter(k - 1) + Net(map_text[k].kind)

\* the pieces that open a brush block or a patch block
BlockOpenings ==
    {k \in DOMAIN map_text : map_text[k].kind \in {Opening, "{\npatch"}}

\* C24: the map text of every completed run is brace-balanced: over mixes
\* of worldspawn objects, accepted and skipped patches, brush entities under
\* every grouping option, lights and empties, the nesting depth of the
\* braces never goes below zero, never exceeds 3 and is zero at the end, and
\* every brush block and patch block lies inside exactly one entity block.
C24_BracesBalanced ==
    pc = "finished" =>
        /\ \A k \in DOMAIN map_text :
              /\ DepthAfter(k - 1) + Lowest(map_text[k].kind) >= 0
              /\ DepthAfter(k - 1) + Highest(map_text[k].kind) <= 3
        /\ DepthAfter(Len(map_text)) = 0
        /\ \A k \in BlockOpenings : DepthAfter(k - 1) = 1

\* a completed run wrote a brush inside a brush entity and a light after it,
\* in the format whose brushes are two braces deep
C24_Witness ==
    /\ pc = "finished" /\ opt.option_brush = "Doom3"
    /\ \E k \in BlockOpenings : \E j \in 1..(k - 1) :
           map_text[j].kind = "}\n{\n\"classname\" \"tname\"\n"
    /\ \E k \in DOMAIN map_text : map_text[k].kind = "{\n\"classname\" \"light\"\n"
    /\ \E k \in DOMAIN map_text : DepthAfter(k) = 3
====
